---- MODULE Spec2Model ----
(***************************************************************************)
(* Verification model of the accounting back end (masein/accounting-       *)
(* assistant-web): the double-entry ledger written through the transaction  *)
(* and invoice endpoints, and the reporting services that read it.          *)
(*                                                                         *)
(* Account codes are sequences of decimal digits (<<1,1,1,0>> is "1110").   *)
(* Dates are small integers (days).  Row ids stand for UUIDs; created_at is *)
(* kept as a dense rank, which preserves the only thing the code uses it    *)
(* for: ORDER BY.                                                           *)
(***************************************************************************)
EXTENDS Integers, Sequences, FiniteSets, TLC

\* ------------------------------------------------------------------ bounds
MaxTxns == 2
MaxDate == 2
MaxTurnover == 3
MaxNodes == 4
MaxBucket == 3
MaxCodes == 2

Dates == 1..MaxDate

\* ----------------------------------------------------------------- helpers
Max(a, b) == IF a >= b THEN a ELSE b
Min(a, b) == IF a <= b THEN a ELSE b

RECURSIVE SumSeq(_)
SumSeq(s) == IF s = <<>> THEN 0 ELSE Head(s) + SumSeq(Tail(s))

RECURSIVE SumOver(_, _)
\* sum of f[x] for x in the finite set S
SumOver(S, f) ==
    IF S = {} THEN 0
    ELSE LET x == CHOOSE y \in S : TRUE IN f[x] + SumOver(S \ {x}, f)

\* str.startswith on digit sequences
StartsWith(code, prefix) ==
    /\ Len(code) >= Len(prefix)
    /\ SubSeq(code, 1, Len(prefix)) = prefix

\* lexicographic order on digit sequences (ORDER BY code)
RECURSIVE CodeLess(_, _)
CodeLess(a, b) ==
    IF a = <<>> THEN b # <<>>
    ELSE IF b = <<>> THEN FALSE
    ELSE IF Head(a) # Head(b) THEN Head(a) < Head(b)
    ELSE CodeLess(Tail(a), Tail(b))

\* ------------------------------------------------------- account natures
ASSET == "ASSET"
LIABILITY == "LIABILITY"
EQUITY == "EQUITY"
REVENUE == "REVENUE"
EXPENSE == "EXPENSE"
OTHER_ == "OTHER"
Natures == {ASSET, LIABILITY, EQUITY, REVENUE, EXPENSE, OTHER_}

\* a code is a sequence of characters: the digits 0..9 stand for themselves
\* and Blank for a space
Blank == 32

RECURSIVE lstrip(_)
lstrip(code) == IF code # << >> /\ Head(code) = Blank THEN lstrip(Tail(code)) ELSE code

RECURSIVE rstrip(_)
rstrip(code) ==
    IF code # << >> /\ code[Len(code)] = Blank THEN rstrip(SubSeq(code, 1, Len(code) - 1)) ELSE code

\* str.strip()
strip(code) == rstrip(lstrip(code))

\* the startswith tests of classify_account_code on c = (code or "").strip()
account_type_of_prefix(c) ==
    IF \E p \in {<<1,1>>, <<1,2>>, <<1,3>>, <<1,4>>, <<1,5>>} : StartsWith(c, p) THEN ASSET
    ELSE IF \E p \in {<<2,1>>, <<2,2>>, <<2,3>>, <<2,4>>} : StartsWith(c, p) THEN LIABILITY
    ELSE IF \E p \in {<<3,1>>, <<3,2>>, <<3,3>>} : StartsWith(c, p) THEN EQUITY
    ELSE IF \E p \in {<<4,1>>, <<4,2>>, <<4,3>>} : StartsWith(c, p) THEN REVENUE
    ELSE IF \E p \in {<<5,1>>, <<5,2>>, <<5,3>>, <<6,1>>, <<6,2>>} : StartsWith(c, p) THEN EXPENSE
    ELSE OTHER_

classify_account_code_unstripped(code) == account_type_of_prefix(code)

classify_account_code(code) == account_type_of_prefix(strip(code))

balance_from_turnovers_credit_default(account_type, debit_turnover, credit_turnover) ==
    IF account_type \in {ASSET, EXPENSE} THEN debit_turnover - credit_turnover
    ELSE credit_turnover - debit_turnover

balance_from_turnovers_debit_always(account_type, debit_turnover, credit_turnover) ==
    debit_turnover - credit_turnover

balance_from_turnovers(account_type, debit_turnover, credit_turnover) ==
    IF account_type \in {ASSET, EXPENSE} THEN debit_turnover - credit_turnover
    ELSE IF account_type \in {LIABILITY, EQUITY, REVENUE} THEN credit_turnover - debit_turnover
    ELSE debit_turnover - credit_turnover

statement_sign_value(account_type, raw_balance) == Max(0, raw_balance)

\* ------------------------------------------------------ chart of accounts
\* The seeded chart (group and general accounts, parent = 2-digit prefix)
\* plus accounts added through the accounts API: a bank sub-account 111001
\* under 1110, cost of goods sold 5110 and an off-balance account 9110.
\* The sequence is in ORDER BY code order; an account's id is its index and
\* parent_id 0 is NULL.
Accounts == <<
    [code |-> <<1,1>>,         parent_id |-> 0],
    [code |-> <<1,1,1,0>>,     parent_id |-> 1],
    [code |-> <<1,1,1,0,0,1>>, parent_id |-> 2],
    [code |-> <<1,1,1,2>>,     parent_id |-> 1],
    [code |-> <<1,2>>,         parent_id |-> 0],
    [code |-> <<1,2,1,0>>,     parent_id |-> 5],
    [code |-> <<2,1>>,         parent_id |-> 0],
    [code |-> <<2,1,1,0>>,     parent_id |-> 7],
    [code |-> <<3,1>>,         parent_id |-> 0],
    [code |-> <<3,1,1,0>>,     parent_id |-> 9],
    [code |-> <<4,1>>,         parent_id |-> 0],
    [code |-> <<4,1,1,0>>,     parent_id |-> 11],
    [code |-> <<5,1>>,         parent_id |-> 0],
    [code |-> <<5,1,1,0>>,     parent_id |-> 13],
    [code |-> <<6,1>>,         parent_id |-> 0],
    [code |-> <<6,1,1,2>>,     parent_id |-> 15],
    [code |-> <<6,2>>,         parent_id |-> 0],
    [code |-> <<6,2,1,0>>,     parent_id |-> 17],
    [code |-> <<9,1>>,         parent_id |-> 0],
    [code |-> <<9,1,1,0>>,     parent_id |-> 19] >>

AccountIds == 1..Len(Accounts)

\* select(Account).where(Account.code == code) ... one_or_none(); 0 is None
account_by_code(code) ==
    IF \E a \in AccountIds : Accounts[a].code = code
    THEN CHOOSE a \in AccountIds : Accounts[a].code = code
    ELSE 0

AccountType(a) == classify_account_code(Accounts[a].code)

\* ------------------------------------------------------------------ state
VARIABLES
    transactions,   \* table transactions with their lines (relationship lines)
    invoices,       \* table invoices
    resp,           \* the response of the last request served
    pure,           \* last call of a pure helper: its arguments and result
    fee_rules,          \* table transaction_fees
    fee_applications    \* table transaction_fee_applications

ledgerVars == <<transactions, invoices, resp>>
pureVars == <<pure>>
feeVars == <<fee_rules, fee_applications>>
vars == <<transactions, invoices, resp, pure, fee_rules, fee_applications>>

NoResp == [op |-> "none", status |-> 0]
NoCall == [fn |-> "none"]

\* ------------------------------------------------------- stored row access
TxnIds(txns) == {t.id : t \in txns}
TxnById(txns, id) == CHOOSE t \in txns : t.id = id

\* uuid4 primary key: any id not in use; the model takes the smallest
NewTxnId(txns) == CHOOSE i \in 1..(Cardinality(txns) + 1) : i \notin TxnIds(txns)

\* server_default func.now(): later than every stored created_at
Now(txns) == 1 + Cardinality({t.created_at : t \in txns})

\* created_at values are only compared; deleting rows re-ranks the rest
Rerank(txns) ==
    {[t EXCEPT !.created_at = Cardinality({u.created_at : u \in {w \in txns : w.created_at <= t.created_at}})]
        : t \in txns}

LineDebits(lines) == SumSeq([i \in 1..Len(lines) |-> lines[i].debit])
LineCredits(lines) == SumSeq([i \in 1..Len(lines) |-> lines[i].credit])


\* ------------------------------------------------ request payloads (inputs)
Line(code, debit, credit) == [account_code |-> code, debit |-> debit, credit |-> credit]

C1110 == <<1,1,1,0>>
C111001 == <<1,1,1,0,0,1>>
C1112 == <<1,1,1,2>>
C1210 == <<1,2,1,0>>
C2110 == <<2,1,1,0>>
C3110 == <<3,1,1,0>>
C4110 == <<4,1,1,0>>
C5110 == <<5,1,1,0>>
C6112 == <<6,1,1,2>>
C6210 == <<6,2,1,0>>
C9110 == <<9,1,1,0>>
C9999 == <<9,9,9,9>>

\* Line sets a client can post, scaled by an amount a >= 1.
LineSet(kind, a) ==
    CASE kind = "sale"        -> << Line(C1110, a, 0), Line(C4110, 0, a) >>
      [] kind = "expense"     -> << Line(C6112, a, 0), Line(C1110, 0, a) >>
      [] kind = "refund"      -> << Line(C1110, a, 0), Line(C6112, 0, a) >>
      [] kind = "capital"     -> << Line(C1110, a, 0), Line(C1210, a, 0), Line(C3110, 0, a + a) >>
      [] kind = "loan"        -> << Line(C111001, a, 0), Line(C2110, 0, a) >>
      [] kind = "repay"       -> << Line(C2110, a, 0), Line(C1110, 0, a) >>
      [] kind = "purchase"    -> << Line(C5110, a, 0), Line(C6210, a, 0), Line(C9110, 0, a + a) >>
      [] kind = "transfer"    -> << Line(C1110, a, 0), Line(C111001, 0, a) >>
      [] kind = "credit_sale" -> << Line(C1112, a, 0), Line(C4110, 0, a) >>
      [] kind = "receipt"     -> << Line(C1110, a, 0), Line(C1112, 0, a) >>
      [] kind = "bill"        -> << Line(C6112, a, 0), Line(C2110, 0, a) >>
      [] kind = "wash"        -> << Line(C1110, a, a) >>
      [] kind = "unbalanced"  -> << Line(C1110, a, 0), Line(C4110, 0, a + 1) >>
      [] kind = "no_account"  -> << Line(C9999, a, 0), Line(C1110, 0, a) >>
      [] kind = "negative"    -> << Line(C1110, 0 - a, 0), Line(C4110, 0, 0 - a) >>
      [] kind = "empty"       -> << >>

\* TransactionCreate: date, lines (min_length 1, debit >= 0, credit >= 0)
WriteKinds == {"capital", "unbalanced", "no_account"}
CreatePayloads ==
    {[date |-> 1, lines |-> LineSet(k, 1)] : k \in WriteKinds}

\* TransactionUpdate: every field optional; lines may be the empty list
UpdatePayloads ==
    {[has_date |-> TRUE, date |-> MaxDate, has_lines |-> FALSE, lines |-> << >>]}
    \cup {[has_date |-> hd, date |-> MaxDate, has_lines |-> TRUE, lines |-> LineSet(k, 2)] :
            hd \in {FALSE}, k \in {"expense", "unbalanced", "no_account", "empty"}}

EditPayloads == {p \in UpdatePayloads : p.has_lines /\ p.lines = LineSet("expense", 2)}

\* ImportTransaction: lines min_length 1, debit and credit any integer
ImportItems ==
    {[date |-> 1, lines |-> LineSet(k, 1)] :
        k \in {"sale", "unbalanced"}}
ImportBatches ==
    UNION {[1..n -> ImportItems] : n \in 1..MaxTxns}

\* ------------------------------------------------------- write operations
\* total_debit != total_credit guards of the write endpoints
BalanceCheckSkipped(lines) == TRUE

BalanceCheck(lines) == LineDebits(lines) = LineCredits(lines)

AllAccountsExist(lines) == \A i \in 1..Len(lines) : account_by_code(lines[i].account_code) # 0

\* TransactionLine rows for a payload's lines
StoredLines(lines) ==
    [i \in 1..Len(lines) |->
        [account_id |-> account_by_code(lines[i].account_code),
         debit |-> lines[i].debit, credit |-> lines[i].credit]]

\* table entities: the rows that exist; the id stands for the name as well
Entities == {1, 2}

\* getattr(payload, "entity_links", []) or []
PayloadLinks(payload) ==
    IF "entity_links" \in DOMAIN payload THEN payload.entity_links ELSE << >>

\* db.get(Entity, link.entity_id) finds a row for every link
AllEntitiesExist(links) == \A i \in 1..Len(links) : links[i].entity_id \in Entities

\* TransactionEntity rows for a payload's links that name an entity_id
StoredLinks(links) ==
    [i \in 1..Len(links) |-> [entity_id |-> links[i].entity_id, role |-> links[i].role]]

\* _create_transaction_from_payload: the rows it leaves in the session, or
\* the HTTP error it raises (nothing is committed then)
create_transaction_from_payload(txns, payload) ==
    IF ~BalanceCheck(payload.lines) THEN [status |-> 400, detail |-> "unbalanced", txns |-> txns]
    ELSE IF ~AllAccountsExist(payload.lines) THEN [status |-> 400, detail |-> "account", txns |-> txns]
    ELSE IF ~AllEntitiesExist(PayloadLinks(payload)) THEN [status |-> 400, detail |-> "entity", txns |-> txns]
    ELSE [status |-> 201, detail |-> "ok",
          txns |-> txns \cup {[id |-> NewTxnId(txns), date |-> payload.date,
                               created_at |-> Now(txns), lines |-> StoredLines(payload.lines),
                               entity_links |-> StoredLinks(PayloadLinks(payload))]}]

CreateTransaction(payload) ==
    /\ Cardinality(transactions) < MaxTxns
    /\ LET r == create_transaction_from_payload(transactions, payload) IN
        /\ transactions' = r.txns
        /\ resp' = [op |-> "create_transaction", status |-> r.status]
    /\ UNCHANGED <<invoices, pure>>
    /\ UNCHANGED feeVars

RegisterJournalEntry(payload) ==
    /\ Cardinality(transactions) < MaxTxns
    /\ LET r == create_transaction_from_payload(transactions, payload) IN
        /\ transactions' = r.txns
        /\ resp' = [op |-> "register_journal_entry", status |-> r.status]
    /\ UNCHANGED <<invoices, pure>>
    /\ UNCHANGED feeVars

UpdateTransaction(id, payload) ==
    /\ IF id \notin TxnIds(transactions)
       THEN /\ resp' = [op |-> "update_transaction", status |-> 404]
            /\ UNCHANGED transactions
       ELSE LET t == TxnById(transactions, id)
                t1 == IF payload.has_date THEN [t EXCEPT !.date = payload.date] ELSE t
            IN  IF ~payload.has_lines
                THEN /\ transactions' = (transactions \ {t}) \cup {t1}
                     /\ resp' = [op |-> "update_transaction", status |-> 200]
                ELSE IF ~BalanceCheck(payload.lines) \/ ~AllAccountsExist(payload.lines)
                THEN /\ resp' = [op |-> "update_transaction", status |-> 400]
                     /\ UNCHANGED transactions
                ELSE /\ transactions' =
                            (transactions \ {t}) \cup {[t1 EXCEPT !.lines = StoredLines(payload.lines)]}
                     /\ resp' = [op |-> "update_transaction", status |-> 200]
    /\ UNCHANGED <<invoices, pure>>
    /\ UNCHANGED feeVars

\* The handler's first statement imports _validate_balanced_lines from
\* app.api.transactions, which defines no such name: ImportError, HTTP 500.
EditJournalEntry(id, payload) ==
    /\ resp' = [op |-> "edit_journal_entry", status |-> 500]
    /\ UNCHANGED <<transactions, invoices, pure>>
    /\ UNCHANGED feeVars

DeleteTransaction(id) ==
    /\ IF id \notin TxnIds(transactions)
       THEN /\ resp' = [op |-> "delete_transaction", status |-> 404]
            /\ UNCHANGED transactions
       ELSE IF \E inv \in invoices : inv.transaction_id = id
       THEN \* invoices.transaction_id references transactions.id with no ON DELETE
            /\ resp' = [op |-> "delete_transaction", status |-> 500]
            /\ UNCHANGED transactions
       ELSE /\ transactions' = Rerank(transactions \ {TxnById(transactions, id)})
            /\ resp' = [op |-> "delete_transaction", status |-> 204]
    /\ UNCHANGED <<invoices, pure>>
    /\ UNCHANGED feeVars

RECURSIVE ImportLoop(_, _, _, _)
\* the for-loop of import_transactions over payload.transactions[i..]
ImportLoop(txns, batch, i, now) ==
    IF i > Len(batch) THEN [status |-> 200, txns |-> txns]
    ELSE IF ~BalanceCheck(batch[i].lines) \/ ~AllAccountsExist(batch[i].lines)
    THEN [status |-> 400, txns |-> txns]
    ELSE ImportLoop(
            txns \cup {[id |-> NewTxnId(txns), date |-> batch[i].date,
                        created_at |-> now, lines |-> StoredLines(batch[i].lines),
                        entity_links |-> << >>]},
            batch, i + 1, now)

ImportTransactions(batch) ==
    /\ Cardinality(transactions) + Len(batch) <= MaxTxns
    /\ LET r == ImportLoop(transactions, batch, 1, Now(transactions)) IN
        /\ transactions' = (IF r.status = 200 THEN r.txns ELSE transactions)
        /\ resp' = [op |-> "import_transactions", status |-> r.status]
    /\ UNCHANGED <<invoices, pure>>
    /\ UNCHANGED feeVars

ReversedLines_copied(lines) ==
    [i \in 1..Len(lines) |->
        [account_id |-> lines[i].account_id, debit |-> lines[i].debit, credit |-> lines[i].credit]]

ReversedLines(lines) ==
    [i \in 1..Len(lines) |->
        [account_id |-> lines[i].account_id, debit |-> lines[i].credit, credit |-> lines[i].debit]]

\* the handler; cap bounds the number of rows the run may hold
ReverseJournalEntryUpTo(cap, id, reverse_date) ==
    /\ Cardinality(transactions) < cap
    /\ IF id \notin TxnIds(transactions)
       THEN /\ resp' = [op |-> "reverse_journal_entry", status |-> 404]
            /\ UNCHANGED transactions
       ELSE LET src == TxnById(transactions, id) IN
            /\ transactions' = transactions \cup
                    {[id |-> NewTxnId(transactions), date |-> reverse_date,
                      created_at |-> Now(transactions), lines |-> ReversedLines(src.lines),
                      entity_links |-> << >>]}
            /\ resp' = [op |-> "reverse_journal_entry", status |-> 200]
    /\ UNCHANGED <<invoices, pure>>
    /\ UNCHANGED feeVars

ReverseJournalEntry(id, reverse_date) == ReverseJournalEntryUpTo(MaxTxns, id, reverse_date)


\* ---------------------------------------------------------------- invoices
\* the model follows the life of one invoice; it names no entity and its
\* bank account has no bank entity, so its payment carries no entity link
ModelInvoiceIds == {1}

InvoiceIds(invs) == {v.id : v \in invs}
InvoiceById(invs, id) == CHOOSE v \in invs : v.id = id

CreateInvoice(kind, amount, status) ==
    /\ Cardinality(invoices) < Cardinality(ModelInvoiceIds)
    /\ invoices' = invoices \cup
            {[id |-> Cardinality(invoices) + 1, kind |-> kind, amount |-> amount,
              status |-> status, transaction_id |-> 0]}
    /\ resp' = [op |-> "create_invoice", status |-> 201]
    /\ UNCHANGED <<transactions, pure>>
    /\ UNCHANGED feeVars

\* update_invoice with payload.status set (the other fields left None)
UpdateInvoice(id, status) ==
    /\ IF id \notin InvoiceIds(invoices)
       THEN /\ resp' = [op |-> "update_invoice", status |-> 404]
            /\ UNCHANGED invoices
       ELSE LET inv == InvoiceById(invoices, id) IN
            /\ invoices' = (invoices \ {inv}) \cup {[inv EXCEPT !.status = status]}
            /\ resp' = [op |-> "update_invoice", status |-> 200]
    /\ UNCHANGED <<transactions, pure>>
    /\ UNCHANGED feeVars

\* the two TransactionLine rows mark_invoice_paid posts
PaymentLines(inv, bank_acc, opposite_acc) ==
    IF inv.kind = "sales"
    THEN << [account_id |-> bank_acc, debit |-> inv.amount, credit |-> 0],
            [account_id |-> opposite_acc, debit |-> 0, credit |-> inv.amount] >>
    ELSE << [account_id |-> opposite_acc, debit |-> inv.amount, credit |-> 0],
            [account_id |-> bank_acc, debit |-> 0, credit |-> inv.amount] >>

MarkInvoicePaid(id, payment_date, bank_account_code) ==
    /\ Cardinality(transactions) < MaxTxns
    /\ IF id \notin InvoiceIds(invoices)
       THEN /\ resp' = [op |-> "mark_invoice_paid", status |-> 404]
            /\ UNCHANGED <<transactions, invoices>>
       ELSE LET inv == InvoiceById(invoices, id)
                bank_acc == account_by_code(bank_account_code)
                opposite_acc == account_by_code(IF inv.kind = "sales" THEN C4110 ELSE C6112)
                tid == NewTxnId(transactions)
            IN  IF inv.status = "paid" /\ inv.transaction_id # 0
                THEN /\ resp' = [op |-> "mark_invoice_paid", status |-> 200]
                     /\ UNCHANGED <<transactions, invoices>>
                ELSE IF bank_acc = 0 \/ opposite_acc = 0
                THEN /\ resp' = [op |-> "mark_invoice_paid", status |-> 400]
                     /\ UNCHANGED <<transactions, invoices>>
                ELSE /\ transactions' = transactions \cup
                            {[id |-> tid, date |-> payment_date, created_at |-> Now(transactions),
                              lines |-> PaymentLines(inv, bank_acc, opposite_acc),
                              entity_links |-> << >>]}
                     /\ invoices' = (invoices \ {inv}) \cup
                            {[inv EXCEPT !.status = "paid", !.transaction_id = tid]}
                     /\ resp' = [op |-> "mark_invoice_paid", status |-> 200]
    /\ UNCHANGED pure
    /\ UNCHANGED feeVars

\* ------------------------------------------------- the write-side system
Init ==
    /\ transactions = {}
    /\ invoices = {}
    /\ resp = NoResp
    /\ pure = NoCall
    /\ fee_rules = {}
    /\ fee_applications = {}

TargetIds == 1..MaxTxns

\* the client reads the response; requests are served one at a time
Deliver ==
    /\ resp # NoResp
    /\ resp' = NoResp
    /\ UNCHANGED <<transactions, invoices, pure>>
    /\ UNCHANGED feeVars

Ready == resp = NoResp

Next ==
    \/ Deliver
    \/ Ready /\ \E p \in CreatePayloads : CreateTransaction(p)
    \/ Ready /\ \E p \in CreatePayloads : RegisterJournalEntry(p)
    \/ Ready /\ \E id \in TargetIds, p \in UpdatePayloads : UpdateTransaction(id, p)
    \/ Ready /\ \E id \in TargetIds, p \in EditPayloads : EditJournalEntry(id, p)
    \/ Ready /\ \E id \in TargetIds : DeleteTransaction(id)
    \/ Ready /\ \E b \in ImportBatches : ImportTransactions(b)
    \/ Ready /\ \E id \in TargetIds : ReverseJournalEntry(id, MaxDate)
    \/ Ready /\ \E k \in {"sales", "purchase"} : CreateInvoice(k, 2, "issued")
    \/ Ready /\ \E id \in ModelInvoiceIds, st \in {"issued", "paid"} : UpdateInvoice(id, st)
    \/ Ready /\ \E id \in ModelInvoiceIds, c \in {C1110, C9999} : MarkInvoicePaid(id, MaxDate, c)

Spec == Init /\ [][Next]_vars


\* ---------------------------------------------------------------- claim C1
TxnBalanced(t) == LineDebits(t.lines) = LineCredits(t.lines)

AllStoredBalanced == \A t \in transactions : TxnBalanced(t)

\* a request whose candidate lines have differing sums changes no row and is
\* answered 400
UnbalancedRejected ==
    /\ resp'.op \in {"create_transaction", "register_journal_entry"} =>
          \A p \in CreatePayloads :
             (LineDebits(p.lines) # LineCredits(p.lines) /\ (CreateTransaction(p) \/ RegisterJournalEntry(p)))
                 => (transactions' = transactions /\ resp'.status = 400)
    /\ resp'.op = "update_transaction" =>
          \A id \in TargetIds, p \in UpdatePayloads :
             (/\ id \in TxnIds(transactions)
              /\ p.has_lines
              /\ LineDebits(p.lines) # LineCredits(p.lines)
              /\ UpdateTransaction(id, p))
                 => (transactions' = transactions /\ resp'.status = 400)
    /\ resp'.op = "import_transactions" =>
          \A b \in ImportBatches :
             ((\E i \in 1..Len(b) : LineDebits(b[i].lines) # LineCredits(b[i].lines)) /\ ImportTransactions(b))
                 => (transactions' = transactions /\ resp'.status = 400)

\* C1: after any sequence of create / register, update, import, reverse and
\* mark-paid requests every stored transaction has equal debit and credit
\* totals, and a create, update or import whose lines have differing totals is
\* rejected and stores nothing.
C1_BalancedLedger == [][AllStoredBalanced /\ AllStoredBalanced' /\ UnbalancedRejected]_vars

\* a ledger holding a posted three-line entry and an invoice payment, right
\* after an update was turned away
C1_Witness ==
    /\ resp = [op |-> "update_transaction", status |-> 400]
    /\ \E t \in transactions : LineDebits(t.lines) > 0 /\ Len(t.lines) = 3
    /\ \E v \in invoices : v.transaction_id \in TxnIds(transactions)


\* =================================================== pure reporting helpers
\* ------------------------------------------------ classify_cash_flow_activity
classify_cash_flow_activity_financing_first(account_codes, account_types) ==
    IF (\E i \in 1..Len(account_codes) : StartsWith(account_codes[i], <<3,1>>))
         \/ (\E i \in 1..Len(account_types) : account_types[i] \in {EQUITY, LIABILITY})
    THEN "financing"
    ELSE IF \E i \in 1..Len(account_codes) : StartsWith(account_codes[i], <<1,2>>) THEN "investing"
    ELSE "operating"

classify_cash_flow_activity(account_codes, account_types) ==
    IF \E i \in 1..Len(account_codes) : StartsWith(account_codes[i], <<1,2>>) THEN "investing"
    ELSE IF (\E i \in 1..Len(account_codes) : StartsWith(account_codes[i], <<3,1>>))
              \/ (\E i \in 1..Len(account_types) : account_types[i] \in {EQUITY, LIABILITY})
    THEN "financing"
    ELSE "operating"

\* ------------------------------------------------------- _rollup_account_tree
\* parent_of is the account list (in list order) reduced to each account's
\* parent_id; an account's id is its index, 0 is None.
children_of(parent_of, p) ==
    SelectSeq([i \in 1..Len(parent_of) |-> i], LAMBDA i : parent_of[i] = p)

walk_add_overwrite(total, child_total) == child_total

\* total += walk(ch)
walk_add(total, child_total) == total + child_total

RECURSIVE walk_total(_, _, _)
\* the for loop over a node's children: total += walk(ch)
walk_total(rs, i, total) ==
    IF i > Len(rs) THEN total
    ELSE walk_total(rs, i + 1, walk_add(total, rs[i].total))

\* the totals dict after several walks: a later write replaces an earlier one
merge_totals(rs) ==
    [k \in UNION {DOMAIN rs[i].totals : i \in DOMAIN rs} |->
        LET last == CHOOSE i \in DOMAIN rs :
                       /\ k \in DOMAIN rs[i].totals
                       /\ \A j \in DOMAIN rs : k \in DOMAIN rs[j].totals => j <= i
        IN  rs[last].totals[k]]

RECURSIVE concat_visits(_, _)
concat_visits(rs, i) ==
    IF i > Len(rs) THEN << >> ELSE rs[i].visits \o concat_visits(rs, i + 1)

RECURSIVE walk(_, _, _)
RECURSIVE walk_each(_, _, _, _)
\* the results of walk(ch) for the nodes ch of a list, in list order
walk_each(nodes, i, parent_of, amounts) ==
    IF i > Len(nodes) THEN << >>
    ELSE <<walk(nodes[i], parent_of, amounts)>> \o walk_each(nodes, i + 1, parent_of, amounts)

\* walk(node): the total it returns, the entries it leaves in the totals dict
\* (its subtree's, then its own) and the order in which walk() was entered
walk(node, parent_of, amounts) ==
    LET rs == walk_each(children_of(parent_of, node), 1, parent_of, amounts)
        total == walk_total(rs, 1, amounts[node])
        below == merge_totals(rs)
    IN  [total |-> total,
         totals |-> [k \in (DOMAIN below) \cup {node} |-> IF k = node THEN total ELSE below[k]],
         visits |-> <<node>> \o concat_visits(rs, 1)]

\* returns the totals dict together with the visit order
rollup_account_tree(parent_of, amounts) ==
    LET rs == walk_each(children_of(parent_of, 0), 1, parent_of, amounts)
    IN  [totals |-> merge_totals(rs), visits |-> concat_visits(rs, 1)]

\* ------------------------------------------------------------ _apply_reduction
AgingKeys == << "days_60_plus", "days_31_60", "current" >>

reduction_take_unclamped(amount, bucket) == amount

\* take = min(amount, buckets[key])
reduction_take(amount, bucket) == Min(amount, bucket)

RECURSIVE apply_reduction_from(_, _, _)
\* the for-loop of _apply_reduction from the i-th key on
apply_reduction_from(buckets, amount, i) ==
    IF i > Len(AgingKeys) THEN buckets
    ELSE IF amount <= 0 THEN buckets
    ELSE LET key == AgingKeys[i]
             take == reduction_take(amount, buckets[key])
         IN  apply_reduction_from([buckets EXCEPT ![key] = @ - take], amount - take, i + 1)

apply_reduction(buckets, amount) == apply_reduction_from(buckets, amount, 1)

\* ------------------------------------------------------------- input sets
TurnoverValues == ((0 - MaxTurnover)..MaxTurnover) \cup {100, 300, 450, 1000}

CounterCodes == {C1210, C3110, C2110, C4110, C6112}
SeqsUpTo(S, n) == UNION {[1..k -> S] : k \in 0..n}

\* account forests on 1..n: following parent links from any node reaches None
RECURSIVE ReachesRoot(_, _, _)
ReachesRoot(parent_of, node, fuel) ==
    IF node = 0 THEN TRUE
    ELSE IF fuel = 0 THEN FALSE
    ELSE ReachesRoot(parent_of, parent_of[node], fuel - 1)

Forests(n) ==
    {f \in [1..n -> 0..n] : \A k \in 1..n : ReachesRoot(f, k, n)}

OwnAmounts == {0 - 1, 0, 2}

BucketValues == (0..MaxBucket) \cup {30, 50, 100}
ReductionAmounts == (0..(3 * MaxBucket + 1)) \cup {120, 151}

\* --------------------------------------------------------- calls (actions)
CallBalanceFromTurnovers(t, d, c) ==
    /\ pure' = [fn |-> "balance_from_turnovers", account_type |-> t,
                debit_turnover |-> d, credit_turnover |-> c,
                ret |-> balance_from_turnovers(t, d, c)]
    /\ UNCHANGED ledgerVars
    /\ UNCHANGED feeVars

CallClassifyCashFlowActivity(codes, types) ==
    /\ pure' = [fn |-> "classify_cash_flow_activity", account_codes |-> codes,
                account_types |-> types, ret |-> classify_cash_flow_activity(codes, types)]
    /\ UNCHANGED ledgerVars
    /\ UNCHANGED feeVars

CallRollupAccountTree(parent_of, amounts) ==
    /\ LET r == rollup_account_tree(parent_of, amounts) IN
        pure' = [fn |-> "_rollup_account_tree", parent_of |-> parent_of, amounts |-> amounts,
                 ret |-> r.totals, visits |-> r.visits]
    /\ UNCHANGED ledgerVars
    /\ UNCHANGED feeVars

CallApplyReduction(buckets, amount) ==
    /\ pure' = [fn |-> "_apply_reduction", buckets |-> buckets, amount |-> amount,
                ret |-> apply_reduction(buckets, amount)]
    /\ UNCHANGED ledgerVars
    /\ UNCHANGED feeVars

\* the caller takes the result; the helper keeps no state between calls
Return ==
    /\ pure # NoCall
    /\ pure' = NoCall
    /\ UNCHANGED ledgerVars
    /\ UNCHANGED feeVars

Idle == pure = NoCall

NextPure ==
    \/ Return
    \/ Idle /\ \E t \in Natures, d \in TurnoverValues, c \in TurnoverValues : CallBalanceFromTurnovers(t, d, c)
    \/ Idle /\ \E codes \in SeqsUpTo(CounterCodes, MaxCodes), types \in SeqsUpTo(Natures, MaxCodes) :
          CallClassifyCashFlowActivity(codes, types)
    \/ Idle /\ \E n \in 1..MaxNodes : \E f \in Forests(n), a \in [1..n -> OwnAmounts] : CallRollupAccountTree(f, a)
    \/ Idle /\ \E b \in [{"current", "days_31_60", "days_60_plus"} -> BucketValues], a \in ReductionAmounts :
          CallApplyReduction(b, a)

SpecPure == Init /\ [][NextPure]_vars


\* ---------------------------------------------------------------- claim C3
\* C3: balance_from_turnovers returns debit - credit for ASSET, EXPENSE and
\* OTHER, and credit - debit for LIABILITY, EQUITY and REVENUE.
C3_NatureAwareBalance ==
    pure.fn = "balance_from_turnovers" =>
        /\ pure.account_type \in {ASSET, EXPENSE, OTHER_}
              => pure.ret = pure.debit_turnover - pure.credit_turnover
        /\ pure.account_type \in {LIABILITY, EQUITY, REVENUE}
              => pure.ret = pure.credit_turnover - pure.debit_turnover

\* the call balance_from_turnovers(OTHER, 1000, 300) returned 700
C3_Witness ==
    /\ pure.fn = "balance_from_turnovers"
    /\ pure.account_type = OTHER_
    /\ pure.debit_turnover = 1000 /\ pure.credit_turnover = 300
    /\ pure.ret = 700

\* ---------------------------------------------------------------- claim C6
HasCodePrefix(codes, prefix) == \E i \in 1..Len(codes) : StartsWith(codes[i], prefix)

\* C6: any counterparty code starting with 12 gives investing whatever else is
\* present; failing that, a code starting with 31 or an EQUITY or LIABILITY
\* nature gives financing; anything else is operating.
C6_CashFlowClassifier ==
    pure.fn = "classify_cash_flow_activity" =>
        LET inv == HasCodePrefix(pure.account_codes, <<1,2>>)
            fin == \/ HasCodePrefix(pure.account_codes, <<3,1>>)
                   \/ \E i \in 1..Len(pure.account_types) : pure.account_types[i] \in {EQUITY, LIABILITY}
        IN  /\ inv => pure.ret = "investing"
            /\ (~inv /\ fin) => pure.ret = "financing"
            /\ (~inv /\ ~fin) => pure.ret = "operating"

\* counterparty codes 1210 and 3110 together, with their natures, gave investing
C6_Witness ==
    /\ pure.fn = "classify_cash_flow_activity"
    /\ pure.account_codes = <<C1210, C3110>>
    /\ pure.account_types = <<ASSET, EQUITY>>
    /\ pure.ret = "investing"

\* ---------------------------------------------------------------- claim C9
\* a is d itself or an ancestor of d (by parent links, at most n steps)
RECURSIVE InSubtree(_, _, _, _)
InSubtree(parent_of, a, d, fuel) ==
    IF d = a THEN TRUE
    ELSE IF d = 0 \/ fuel = 0 THEN FALSE
    ELSE InSubtree(parent_of, a, parent_of[d], fuel - 1)

Subtree(parent_of, a) ==
    {d \in 1..Len(parent_of) : InSubtree(parent_of, a, d, Len(parent_of))}

\* C9: over an acyclic forest the roll-up visits each account exactly once and
\* gives each account its own amount plus the rolled totals of its direct
\* children, i.e. the sum of own amounts over its subtree; all-zero amounts
\* give all-zero totals.
C9_Rollup ==
    pure.fn = "_rollup_account_tree" =>
        LET n == Len(pure.parent_of)
            nodes == 1..n
        IN  /\ Len(pure.visits) = n
            /\ {pure.visits[i] : i \in 1..n} = nodes
            /\ DOMAIN pure.ret = nodes
            /\ \A k \in nodes :
                  /\ pure.ret[k] = pure.amounts[k]
                        + SumOver({c \in nodes : pure.parent_of[c] = k}, pure.ret)
                  /\ pure.ret[k] = SumOver(Subtree(pure.parent_of, k), pure.amounts)
            /\ (\A k \in nodes : pure.amounts[k] = 0) => (\A k \in nodes : pure.ret[k] = 0)

\* a root with two children, one of which has a child of its own, all with
\* non-zero amounts
C9_Witness ==
    /\ pure.fn = "_rollup_account_tree"
    /\ Len(pure.parent_of) = 4
    /\ pure.parent_of = [k \in 1..4 |-> CASE k = 1 -> 0 [] k = 2 -> 1 [] k = 3 -> 1 [] k = 4 -> 2]
    /\ \A k \in 1..4 : pure.amounts[k] = 2
    /\ pure.ret[1] = 8 /\ pure.ret[2] = 4

\* --------------------------------------------------------------- claim C10
BucketTotal(b) == b["current"] + b["days_31_60"] + b["days_60_plus"]

\* C10: a reduction by amount > 0 of non-negative buckets consumes 60+ first,
\* then 31-60, then current, carrying the remainder; afterwards no bucket is
\* negative and the total is max(0, total before - amount).
C10_OldestFirstReduction ==
    (pure.fn = "_apply_reduction" /\ pure.amount > 0) =>
        LET b == pure.buckets
            r == pure.ret
            rest1 == Max(0, pure.amount - b["days_60_plus"])
            rest2 == Max(0, rest1 - b["days_31_60"])
        IN  /\ r["days_60_plus"] = Max(0, b["days_60_plus"] - pure.amount)
            /\ r["days_31_60"] = Max(0, b["days_31_60"] - rest1)
            /\ r["current"] = Max(0, b["current"] - rest2)
            /\ \A k \in DOMAIN r : r[k] >= 0
            /\ BucketTotal(r) = Max(0, BucketTotal(b) - pure.amount)

\* {current 0, 31-60 100, 60+ 50} reduced by 120 became {0, 30, 0}
C10_Witness ==
    /\ pure.fn = "_apply_reduction"
    /\ pure.amount = 120
    /\ pure.buckets = [current |-> 0, days_31_60 |-> 100, days_60_plus |-> 50]
    /\ pure.ret = [current |-> 0, days_31_60 |-> 30, days_60_plus |-> 0]

\* ============================================================ reporting reads
\* a row of transaction_lines joined to its transaction: <<transaction id,
\* position in the transaction's lines>>; the pair also stands for the line's
\* own id in ORDER BY
LineRefs(txns) == UNION {{<<t.id, i>> : i \in 1..Len(t.lines)} : t \in txns}
RefTxn(txns, r) == TxnById(txns, r[1])
RefLine(txns, r) == TxnById(txns, r[1]).lines[r[2]]

RECURSIVE OrderBy(_, _)
\* ORDER BY: the rows of S as a sequence in ascending order of key[row]
OrderBy(S, key) ==
    IF S = {} THEN << >>
    ELSE LET m == CHOOSE x \in S : \A y \in S \ {x} : CodeLess(key[x], key[y])
         IN  <<m>> \o OrderBy(S \ {m}, key)

\* offset = max(0, (page - 1) * page_size); rows[offset : offset + page_size]
PageWindow(rows, page, page_size) ==
    LET offset == Max(0, (page - 1) * page_size)
    IN  SubSeq(rows, offset + 1, Min(offset + page_size, Len(rows)))

\* from_date > to_date swaps the two (both dates are always supplied here)
default_period(from_date, to_date) ==
    IF from_date > to_date THEN [from_date |-> to_date, to_date |-> from_date]
    ELSE [from_date |-> from_date, to_date |-> to_date]

DebitSum(txns, R) == SumOver(R, [r \in R |-> RefLine(txns, r).debit])
CreditSum(txns, R) == SumOver(R, [r \in R |-> RefLine(txns, r).credit])

\* GROUP BY account_id over the lines of the selected transactions
GroupTurnovers(txns, R) ==
    [a \in {RefLine(txns, r).account_id : r \in R} |->
        [debit |-> DebitSum(txns, {r \in R : RefLine(txns, r).account_id = a}),
         credit |-> CreditSum(txns, {r \in R : RefLine(txns, r).account_id = a})]]

account_turnovers_between(txns, from_date, to_date) ==
    GroupTurnovers(txns, {r \in LineRefs(txns) :
        RefTxn(txns, r).date >= from_date /\ RefTxn(txns, r).date <= to_date})

account_turnovers_upto(txns, to_date) ==
    GroupTurnovers(txns, {r \in LineRefs(txns) : RefTxn(txns, r).date <= to_date})

\* one row per account that has lines in the period, ORDER BY code
trial_balance_rows(txns, from_date, to_date) ==
    LET t == account_turnovers_between(txns, from_date, to_date)
        ids == SelectSeq([i \in 1..Len(Accounts) |-> i], LAMBDA a : a \in DOMAIN t)
    IN  [k \in 1..Len(ids) |->
            [code |-> Accounts[ids[k]].code,
             debit_turnover |-> t[ids[k]].debit,
             credit_turnover |-> t[ids[k]].credit]]

paged_account_lines(txns, account_code, from_date, to_date, page, page_size) ==
    LET acc == account_by_code(account_code) IN
    IF acc = 0 THEN [acc |-> 0, total |-> 0, rows |-> << >>]
    ELSE LET R == {r \in LineRefs(txns) :
                     /\ RefLine(txns, r).account_id = acc
                     /\ RefTxn(txns, r).date >= from_date
                     /\ RefTxn(txns, r).date <= to_date}
             ordered == OrderBy(R, [r \in R |->
                            <<RefTxn(txns, r).date, RefTxn(txns, r).created_at, r[1], r[2]>>])
         IN  [acc |-> acc, total |-> Cardinality(R), rows |-> PageWindow(ordered, page, page_size)]

opening_balance_before(txns, account_id, before_date) ==
    LET R == {r \in LineRefs(txns) :
                RefLine(txns, r).account_id = account_id /\ RefTxn(txns, r).date < before_date}
    IN  [debit |-> DebitSum(txns, R), credit |-> CreditSum(txns, R)]

\* ================================================================ LedgerService
trial_balance_row_by_nature(code, d_turn, c_turn) ==
    LET net == balance_from_turnovers(classify_account_code(code), d_turn, c_turn)
    IN  [account_code |-> code, debit_turnover |-> d_turn, credit_turnover |-> c_turn,
         debit_balance |-> IF net > 0 THEN net ELSE 0,
         credit_balance |-> IF net < 0 THEN 0 - net ELSE 0]

\* net = d_turn - c_turn; dbal = net if net > 0 else 0; cbal = -net if net < 0 else 0
trial_balance_row(code, d_turn, c_turn) ==
    LET net == d_turn - c_turn
    IN  [account_code |-> code, debit_turnover |-> d_turn, credit_turnover |-> c_turn,
         debit_balance |-> IF net > 0 THEN net ELSE 0,
         credit_balance |-> IF net < 0 THEN 0 - net ELSE 0]

trial_balance(txns, from_date, to_date, page, page_size, report_type) ==
    LET period == default_period(from_date, to_date)
        rows == trial_balance_rows(txns, period.from_date, period.to_date)
        window == PageWindow(rows, page, page_size)
        out_rows == [k \in 1..Len(window) |->
                        trial_balance_row(window[k].code, window[k].debit_turnover, window[k].credit_turnover)]
    IN  [report_type |-> report_type, period |-> period, page |-> page, page_size |-> page_size,
         total |-> Len(rows), rows |-> out_rows,
         totals |-> [debit_turnover |-> SumSeq([k \in 1..Len(out_rows) |-> out_rows[k].debit_turnover]),
                     credit_turnover |-> SumSeq([k \in 1..Len(out_rows) |-> out_rows[k].credit_turnover]),
                     debit_balance |-> SumSeq([k \in 1..Len(out_rows) |-> out_rows[k].debit_balance]),
                     credit_balance |-> SumSeq([k \in 1..Len(out_rows) |-> out_rows[k].credit_balance])]]

general_ledger(txns, from_date, to_date, page, page_size) ==
    trial_balance(txns, from_date, to_date, page, page_size, "general_ledger")

\* running += debit - credit for ASSET, EXPENSE, OTHER; credit - debit otherwise
ledger_delta(acc_type, debit, credit) ==
    IF acc_type \in {ASSET, EXPENSE, OTHER_} THEN debit - credit ELSE credit - debit

RECURSIVE ledger_walk(_, _, _, _, _)
\* the loop over the page's rows, carrying the running balance
ledger_walk(txns, rows, i, acc_type, running) ==
    IF i > Len(rows) THEN << >>
    ELSE LET line == RefLine(txns, rows[i])
             txn == RefTxn(txns, rows[i])
             next == running + ledger_delta(acc_type, line.debit, line.credit)
         IN  << [date |-> txn.date, transaction_id |-> txn.id, debit |-> line.debit,
                 credit |-> line.credit, running_balance |-> next] >>
             \o ledger_walk(txns, rows, i + 1, acc_type, next)

account_ledger(txns, account_code, from_date, to_date, page, page_size) ==
    LET period == default_period(from_date, to_date)
        q == paged_account_lines(txns, account_code, period.from_date, period.to_date, page, page_size)
    IN
    IF q.acc = 0 THEN [status |-> 404]
    ELSE LET opening == opening_balance_before(txns, q.acc, period.from_date)
             acc_type == classify_account_code(Accounts[q.acc].code)
             start == balance_from_turnovers(acc_type, opening.debit, opening.credit)
             out_rows == ledger_walk(txns, q.rows, 1, acc_type, start)
         IN  [status |-> 200,
              report_type |-> "account_ledger",
              period |-> period,
              account |-> [account_code |-> Accounts[q.acc].code,
                           debit_turnover |-> SumSeq([k \in 1..Len(out_rows) |-> out_rows[k].debit]),
                           credit_turnover |-> SumSeq([k \in 1..Len(out_rows) |-> out_rows[k].credit]),
                           balance |-> IF out_rows = << >> THEN start
                                       ELSE out_rows[Len(out_rows)].running_balance],
              page |-> page, page_size |-> page_size, total |-> q.total,
              items |-> out_rows]

\* the account ledger re-labelled; its rows keep the running balances
cash_bank_rows(report) ==
    IF report.status = 404 THEN report
    ELSE [status |-> 200, report_type |-> "cash_bank_statement", period |-> report.period,
          account |-> report.account, page |-> report.page, page_size |-> report.page_size,
          total |-> report.total, rows |-> report.items]

\* report = self.account_ledger(...), evaluated once
cash_bank_statement(txns, account_code, from_date, to_date, page, page_size) ==
    CHOOSE out \in {cash_bank_rows(report) :
                       report \in {account_ledger(txns, account_code, from_date, to_date, page, page_size)}} : TRUE

\* ===================================================== financial statements
\* the account list reduced to parent ids, in list_accounts() order
ChartParents == [a \in AccountIds |-> Accounts[a].parent_id]

RECURSIVE section_includes(_, _)
\* build(): a node is kept when its own type is the section's or a child is kept
section_includes(a, section_type) ==
    \/ AccountType(a) = section_type
    \/ \E i \in 1..Len(children_of(ChartParents, a)) :
          section_includes(children_of(ChartParents, a)[i], section_type)

\* _build_section_tree: the nested nodes, kept flat: nodes maps each kept
\* account to its node (children are the kept child ids); items are the roots
build_section_tree(totals, section_type) ==
    LET kept == {a \in AccountIds : section_includes(a, section_type)}
        keep_seq(ids) == SelectSeq(ids, LAMBDA a : a \in kept)
    IN  [items |-> keep_seq(children_of(ChartParents, 0)),
         nodes |-> [a \in kept |->
                      [account_code |-> Accounts[a].code,
                       account_type |-> AccountType(a),
                       balance |-> totals[a],
                       children |-> keep_seq(children_of(ChartParents, a))]]]

\* _sum_nodes over the root-level nodes of a section
sum_nodes(section) == SumSeq([i \in 1..Len(section.items) |-> section.nodes[section.items[i]].balance])

build_balance_sheet(txns, to_date) ==
    LET turnover == account_turnovers_upto(txns, to_date)
        t(a) == IF a \in DOMAIN turnover THEN turnover[a] ELSE [debit |-> 0, credit |-> 0]
        own_balances == [a \in AccountIds |->
            statement_sign_value(AccountType(a),
                                 balance_from_turnovers(AccountType(a), t(a).debit, t(a).credit))]
        rolled == rollup_account_tree(ChartParents, own_balances).totals
        assets == build_section_tree(rolled, ASSET)
        liabilities == build_section_tree(rolled, LIABILITY)
        equity == build_section_tree(rolled, EQUITY)
    IN  [period |-> [to_date |-> to_date],
         sections |-> [assets |-> assets, liabilities |-> liabilities, equity |-> equity],
         totals |-> [assets |-> sum_nodes(assets), liabilities |-> sum_nodes(liabilities),
                     equity |-> sum_nodes(equity)]]

income_amount_unclamped(acc_type, debit, credit) == balance_from_turnovers(acc_type, debit, credit)

\* amount = max(0, balance_from_turnovers(acc_type, tb.debit, tb.credit))
income_amount(acc_type, debit, credit) == Max(0, balance_from_turnovers(acc_type, debit, credit))

\* the if / elif chain that picks the list a node is appended to
income_category(code, acc_type) ==
    IF acc_type = REVENUE THEN "revenues"
    ELSE IF StartsWith(code, <<5,1>>) THEN "cogs"
    ELSE IF StartsWith(code, <<6,1>>) THEN "operating_expenses"
    ELSE IF StartsWith(code, <<6,2>>) \/ acc_type = EXPENSE THEN "other_expenses"
    ELSE "none"

build_income_statement(txns, from_date, to_date) ==
    LET period == default_period(from_date, to_date)
        turnover == account_turnovers_between(txns, period.from_date, period.to_date)
        amounts == [a \in DOMAIN turnover |->
                       income_amount(AccountType(a), turnover[a].debit, turnover[a].credit)]
        shown == SelectSeq([i \in 1..Len(Accounts) |-> i],
                           LAMBDA a : a \in DOMAIN turnover /\ amounts[a] # 0)
        node(a) == [account_code |-> Accounts[a].code, account_type |-> AccountType(a),
                    balance |-> amounts[a],
                    debit_turnover |-> turnover[a].debit, credit_turnover |-> turnover[a].credit]
        lists == [cat \in {"revenues", "cogs", "operating_expenses", "other_expenses"} |->
                     LET ids == SelectSeq(shown, LAMBDA a : income_category(Accounts[a].code, AccountType(a)) = cat)
                     IN  [i \in 1..Len(ids) |-> node(ids[i])]]
        total == [cat \in DOMAIN lists |-> SumSeq([i \in 1..Len(lists[cat]) |-> lists[cat][i].balance])]
        gross_profit == total["revenues"] - total["cogs"]
    IN  [period |-> period,
         sections |-> [k \in DOMAIN lists |-> [items |-> lists[k], total |-> total[k]]],
         totals |-> [revenue |-> total["revenues"], cogs |-> total["cogs"],
                     gross_profit |-> gross_profit,
                     operating_expenses |-> total["operating_expenses"],
                     other_expenses |-> total["other_expenses"],
                     net_profit |-> gross_profit - total["operating_expenses"] - total["other_expenses"]]]

is_cash_code_exact(code) == code = <<1,1,1,0>>

\* (ln.account.code or "").startswith("1110")
is_cash_code(code) == StartsWith(code, <<1,1,1,0>>)

\* ids of the period's transactions, ORDER BY date, created_at, id
transactions_with_lines_between(txns, from_date, to_date) ==
    LET P == {t \in txns : t.date >= from_date /\ t.date <= to_date}
    IN  OrderBy({t.id : t \in P}, [i \in {t.id : t \in P} |->
            <<TxnById(txns, i).date, TxnById(txns, i).created_at, i>>])

RECURSIVE cash_flow_loop(_, _, _, _)
\* the loop over txns; acc maps a section to its lines and running net
cash_flow_loop(txns, ids, i, acc) ==
    IF i > Len(ids) THEN acc
    ELSE
      LET txn == TxnById(txns, ids[i])
          code(ln) == Accounts[ln.account_id].code
          cash_lines == SelectSeq(txn.lines, LAMBDA ln : is_cash_code(code(ln)))
          cash_delta == SumSeq([k \in 1..Len(cash_lines) |-> cash_lines[k].debit - cash_lines[k].credit])
          counter == SelectSeq(txn.lines, LAMBDA ln : ~is_cash_code(code(ln)))
          counter_codes == [k \in 1..Len(counter) |-> code(counter[k])]
          counter_types == [k \in 1..Len(counter) |-> classify_account_code(code(counter[k]))]
          bucket == classify_cash_flow_activity(counter_codes, counter_types)
          line == [account_code |-> IF counter_codes # << >> THEN counter_codes[1] ELSE <<1,1,1,0>>,
                   transaction_id |-> txn.id,
                   amount |-> cash_delta]
      IN  IF cash_lines = << >> \/ cash_delta = 0
          THEN cash_flow_loop(txns, ids, i + 1, acc)
          ELSE cash_flow_loop(txns, ids, i + 1,
                   [acc EXCEPT ![bucket] = [lines |-> Append(@.lines, line), net |-> @.net + cash_delta]])

\* a disclosure line is labelled f"Transaction {txn.id}" (the modelled
\* transactions carry no description or reference): kept as transaction_id
build_cash_flow_statement(txns, from_date, to_date) ==
    LET period == default_period(from_date, to_date)
        ids == transactions_with_lines_between(txns, period.from_date, period.to_date)
        sections == cash_flow_loop(txns, ids, 1,
                        [k \in {"operating", "investing", "financing"} |-> [lines |-> << >>, net |-> 0]])
    IN  [period |-> period,
         sections |-> sections,
         totals |-> [operating |-> sections["operating"].net,
                     investing |-> sections["investing"].net,
                     financing |-> sections["financing"].net,
                     net_cash_change |-> sections["operating"].net + sections["investing"].net
                                         + sections["financing"].net]]

\* ------------------------------------------------- books endpoints (GET)
TrialBalance(from_date, to_date, page, page_size) ==
    /\ resp' = [op |-> "trial_balance", status |-> 200,
                body |-> trial_balance(transactions, from_date, to_date, page, page_size, "trial_balance")]
    /\ UNCHANGED <<transactions, invoices, pure>>
    /\ UNCHANGED feeVars

GeneralLedger(from_date, to_date, page, page_size) ==
    /\ resp' = [op |-> "general_ledger", status |-> 200,
                body |-> general_ledger(transactions, from_date, to_date, page, page_size)]
    /\ UNCHANGED <<transactions, invoices, pure>>
    /\ UNCHANGED feeVars

AccountLedger(account_code, from_date, to_date, page, page_size) ==
    /\ LET r == account_ledger(transactions, account_code, from_date, to_date, page, page_size)
       IN  resp' = [op |-> "account_ledger", status |-> r.status, body |-> r]
    /\ UNCHANGED <<transactions, invoices, pure>>
    /\ UNCHANGED feeVars

CashBankStatement(account_code, from_date, to_date, page, page_size) ==
    /\ LET r == cash_bank_statement(transactions, account_code, from_date, to_date, page, page_size)
       IN  resp' = [op |-> "cash_bank_statement", status |-> r.status, body |-> r]
    /\ UNCHANGED <<transactions, invoices, pure>>
    /\ UNCHANGED feeVars

\* ---------------------------------------------------- books: inputs, Next
MaxPage == 2
Pages == 1..MaxPage
PageSizes == {1, 2}

\* postings of distinct amounts, so that a sum tells which lines are in it
BookPayloads ==
    {[date |-> d, lines |-> LineSet(k[1], k[2])] :
        d \in Dates, k \in {<<"sale", 3>>, <<"expense", 2>>, <<"repay", 1>>}}

LedgerCodes == {C1110, C2110, C9999}

NextBooks ==
    \/ Deliver
    \/ Ready /\ \E p \in BookPayloads : CreateTransaction(p)
    \/ Ready /\ \E f \in Dates, t \in Dates, pg \in Pages, ps \in PageSizes :
                   TrialBalance(f, t, pg, ps)
    \/ Ready /\ \E f \in Dates, t \in Dates, pg \in Pages, ps \in PageSizes :
                   GeneralLedger(f, t, pg, ps)
    \/ Ready /\ \E c \in LedgerCodes, f \in Dates, t \in Dates, pg \in Pages, ps \in PageSizes :
                   AccountLedger(c, f, t, pg, ps)
    \/ Ready /\ \E c \in LedgerCodes, f \in Dates, t \in Dates, pg \in Pages, ps \in PageSizes :
                   CashBankStatement(c, f, t, pg, ps)

SpecBooks == Init /\ [][NextBooks]_vars

\* ----------------------------------------------------------------------- C2
\* debit and credit totals of an account's lines dated within [lo, hi]
PeriodLines(code, lo, hi) ==
    {r \in LineRefs(transactions) :
        /\ Accounts[RefLine(transactions, r).account_id].code = code
        /\ RefTxn(transactions, r).date >= lo
        /\ RefTxn(transactions, r).date <= hi}

\* C2: every trial-balance / general-ledger row carries the period turnovers
\* d and c of its account and splits the raw net: debit_balance = max(d - c, 0)
\* and credit_balance = max(c - d, 0), so at most one is non-zero, neither is
\* negative, and the account's nature plays no part.
C2_RawNetSplit ==
    resp.op \in {"trial_balance", "general_ledger"} =>
        \A k \in DOMAIN resp.body.rows :
            LET row == resp.body.rows[k]
                L == PeriodLines(row.account_code, resp.body.period.from_date, resp.body.period.to_date)
                d == SumOver(L, [r \in L |-> RefLine(transactions, r).debit])
                c == SumOver(L, [r \in L |-> RefLine(transactions, r).credit])
            IN  /\ row.debit_turnover = d
                /\ row.credit_turnover = c
                /\ row.debit_balance = Max(d - c, 0)
                /\ row.credit_balance = Max(c - d, 0)
                /\ row.debit_balance = 0 \/ row.credit_balance = 0
                /\ row.debit_balance >= 0 /\ row.credit_balance >= 0

\* a trial balance showing an overdrawn asset account on the credit side and
\* an overpaid liability account on the debit side
C2_Witness ==
    /\ resp.op = "trial_balance"
    /\ \E k \in DOMAIN resp.body.rows :
          /\ classify_account_code(resp.body.rows[k].account_code) = ASSET
          /\ resp.body.rows[k].credit_balance > 0
    /\ \E k \in DOMAIN resp.body.rows :
          /\ classify_account_code(resp.body.rows[k].account_code) = LIABILITY
          /\ resp.body.rows[k].debit_balance > 0

\* ----------------------------------------------------------------------- C8
\* C8: on every page of the account ledger and of the cash/bank statement the
\* running balance of a row is the opening balance (nature-aware balance of
\* the account's lines dated before the window) plus the nature-aware deltas
\* of all the account's lines of the window up to and including that row, in
\* (date, creation time, line id) order.
C8_RunningBalanceOnEveryPage ==
    (resp.op \in {"account_ledger", "cash_bank_statement"} /\ resp.status = 200) =>
        LET b == resp.body
            code == b.account.account_code
            nature == classify_account_code(code)
            shown == IF resp.op = "account_ledger" THEN b.items ELSE b.rows
            before == PeriodLines(code, 0, b.period.from_date - 1)
            window == PeriodLines(code, b.period.from_date, b.period.to_date)
            Delta(r) == IF nature \in {ASSET, EXPENSE, OTHER_}
                        THEN RefLine(transactions, r).debit - RefLine(transactions, r).credit
                        ELSE RefLine(transactions, r).credit - RefLine(transactions, r).debit
            Key(r) == <<RefTxn(transactions, r).date, RefTxn(transactions, r).created_at, r[1], r[2]>>
            opening == SumOver(before, [r \in before |-> Delta(r)])
            ordered == OrderBy(window, [r \in window |-> Key(r)])
        IN  \A j \in DOMAIN shown :
                LET pos == (b.page - 1) * b.page_size + j
                    upto == {ordered[i] : i \in 1..pos}
                IN  shown[j].running_balance = opening + SumOver(upto, [r \in upto |-> Delta(r)])

\* ------------------------------------------ financial endpoints (GET), Next
BalanceSheet(to_date) ==
    /\ resp' = [op |-> "balance_sheet", status |-> 200,
                body |-> build_balance_sheet(transactions, to_date)]
    /\ UNCHANGED <<transactions, invoices, pure>>
    /\ UNCHANGED feeVars

IncomeStatement(from_date, to_date) ==
    /\ resp' = [op |-> "income_statement", status |-> 200,
                body |-> build_income_statement(transactions, from_date, to_date)]
    /\ UNCHANGED <<transactions, invoices, pure>>
    /\ UNCHANGED feeVars

CashFlowStatement(from_date, to_date) ==
    /\ resp' = [op |-> "cash_flow_statement", status |-> 200,
                body |-> build_cash_flow_statement(transactions, from_date, to_date)]
    /\ UNCHANGED <<transactions, invoices, pure>>
    /\ UNCHANGED feeVars

StatementPayloads ==
    {[date |-> d, lines |-> LineSet(k[1], k[2])] :
        d \in Dates,
        k \in {<<"sale", 5>>, <<"expense", 2>>, <<"refund", 1>>, <<"capital", 3>>,
               <<"loan", 4>>, <<"purchase", 1>>, <<"transfer", 2>>}}

NextStatements ==
    \/ Deliver
    \/ Ready /\ \E p \in StatementPayloads : CreateTransaction(p)
    \/ Ready /\ \E t \in Dates : BalanceSheet(t)
    \/ Ready /\ \E f \in Dates, t \in Dates : IncomeStatement(f, t)
    \/ Ready /\ \E f \in Dates, t \in Dates : CashFlowStatement(f, t)

SpecStatements == Init /\ [][NextStatements]_vars

\* ----------------------------------------------------------------------- C4
\* nature-aware balance of one account over its lines dated within [lo, hi]
NatureBalance(a, lo, hi) ==
    LET L == PeriodLines(Accounts[a].code, lo, hi)
        d == SumOver(L, [r \in L |-> RefLine(transactions, r).debit])
        c == SumOver(L, [r \in L |-> RefLine(transactions, r).credit])
    IN  IF AccountType(a) \in {LIABILITY, EQUITY, REVENUE} THEN c - d ELSE d - c

\* C4: in the balance sheet as of a date every node shows the sum, over the
\* account and its descendants, of the nature-aware cumulative balances up to
\* that date, negative ones included.
C4_BalanceSheetSubtreeSums ==
    resp.op = "balance_sheet" =>
        \A sec \in DOMAIN resp.body.sections :
            \A a \in DOMAIN resp.body.sections[sec].nodes :
                LET below == Subtree(ChartParents, a)
                IN  resp.body.sections[sec].nodes[a].balance
                      = SumOver(below, [b \in below |-> NatureBalance(b, 0, resp.body.period.to_date)])

\* ----------------------------------------------------------------------- C5
\* the category the statement's rules give an account
CategoryOf(a) ==
    IF AccountType(a) = REVENUE THEN "revenues"
    ELSE IF StartsWith(Accounts[a].code, <<5,1>>) THEN "cogs"
    ELSE IF StartsWith(Accounts[a].code, <<6,1>>) THEN "operating_expenses"
    ELSE IF StartsWith(Accounts[a].code, <<6,2>>) \/ AccountType(a) = EXPENSE THEN "other_expenses"
    ELSE "none"

\* C5: in the income statement of a period every account with turnover in the
\* period adds max(0, its nature-aware period balance) to exactly one category
\* (revenue nature, else prefix 51, else prefix 61, else prefix 62 or expense
\* nature), accounts of the other natures add to none, a negative balance adds
\* 0, gross_profit = revenue - cogs and net_profit = gross_profit -
\* operating_expenses - other_expenses.
C5_IncomeStatementCategories ==
    resp.op = "income_statement" =>
        LET b == resp.body
            lo == b.period.from_date
            hi == b.period.to_date
            active == {a \in AccountIds : PeriodLines(Accounts[a].code, lo, hi) # {}}
            Contribution(a) == Max(0, NatureBalance(a, lo, hi))
            Expected(cat) == LET S == {a \in active : CategoryOf(a) = cat}
                             IN  SumOver(S, [a \in S |-> Contribution(a)])
            Listed(cat, a) == {i \in DOMAIN b.sections[cat].items :
                                  b.sections[cat].items[i].account_code = Accounts[a].code}
        IN  /\ \A cat \in DOMAIN b.sections :
                /\ b.sections[cat].total = Expected(cat)
                /\ b.sections[cat].total
                     = SumSeq([i \in DOMAIN b.sections[cat].items |-> b.sections[cat].items[i].balance])
                /\ \A a \in AccountIds :
                      IF a \in active /\ CategoryOf(a) = cat /\ Contribution(a) > 0
                      THEN /\ Cardinality(Listed(cat, a)) = 1
                           /\ \A i \in Listed(cat, a) : b.sections[cat].items[i].balance = Contribution(a)
                      ELSE Listed(cat, a) = {}
            /\ \A a \in AccountIds :
                  AccountType(a) \in {ASSET, LIABILITY, EQUITY, OTHER_} => CategoryOf(a) = "none"
            /\ b.totals.revenue = Expected("revenues")
            /\ b.totals.cogs = Expected("cogs")
            /\ b.totals.operating_expenses = Expected("operating_expenses")
            /\ b.totals.other_expenses = Expected("other_expenses")
            /\ b.totals.gross_profit = b.totals.revenue - b.totals.cogs
            /\ b.totals.net_profit
                 = b.totals.gross_profit - b.totals.operating_expenses - b.totals.other_expenses

\* an income statement of a period in which an operating expense account was
\* refunded more than was spent, next to cost of goods sold and other expenses
C5_Witness ==
    /\ resp.op = "income_statement"
    /\ NatureBalance(account_by_code(C6112), resp.body.period.from_date, resp.body.period.to_date) < 0
    /\ resp.body.totals.operating_expenses = 0
    /\ resp.body.totals.cogs > 0
    /\ resp.body.totals.other_expenses > 0
    /\ resp.body.totals.net_profit < 0

\* ----------------------------------------------------------------------- C7
\* cash delta of a stored transaction: debit - credit over its lines on
\* accounts whose code starts with 1110
CashDelta(t) ==
    LET I == {i \in 1..Len(t.lines) : StartsWith(Accounts[t.lines[i].account_id].code, <<1,1,1,0>>)}
    IN  SumOver(I, [i \in I |-> t.lines[i].debit - t.lines[i].credit])

\* C7: in the cash-flow statement every transaction of the period with a
\* non-zero cash delta has exactly one disclosure line, in one section, whose
\* amount is that delta; a transaction with a zero delta or without a cash
\* line has none; a section's net is the sum of its lines' amounts; and
\* net_cash_change = operating + investing + financing = the sum of the cash
\* deltas of all transactions of the period.
C7_CashFlowSections ==
    resp.op = "cash_flow_statement" =>
        LET b == resp.body
            P == {t \in transactions : t.date >= b.period.from_date /\ t.date <= b.period.to_date}
            Places(t) == {<<k, i>> \in UNION {{k} \X DOMAIN b.sections[k].lines : k \in DOMAIN b.sections} :
                             b.sections[k].lines[i].transaction_id = t.id}
        IN  /\ \A t \in P :
                  IF CashDelta(t) # 0
                  THEN /\ Cardinality(Places(t)) = 1
                       /\ \A pl \in Places(t) : b.sections[pl[1]].lines[pl[2]].amount = CashDelta(t)
                  ELSE Places(t) = {}
            /\ \A k \in DOMAIN b.sections :
                  /\ \A i \in DOMAIN b.sections[k].lines :
                        \E t \in P : b.sections[k].lines[i].transaction_id = t.id
                  /\ b.sections[k].net
                       = SumSeq([i \in DOMAIN b.sections[k].lines |-> b.sections[k].lines[i].amount])
                  /\ b.totals[k] = b.sections[k].net
            /\ b.totals.net_cash_change = b.totals.operating + b.totals.investing + b.totals.financing
            /\ b.totals.net_cash_change = SumOver(P, [t \in P |-> CashDelta(t)])

\* a cash-flow statement with a financing line for money borrowed into a bank
\* sub-account, over a period that also holds a transfer between cash accounts
C7_Witness ==
    /\ resp.op = "cash_flow_statement"
    /\ resp.body.sections["financing"].lines # << >>
    /\ \E t \in transactions :
          /\ t.date >= resp.body.period.from_date /\ t.date <= resp.body.period.to_date
          /\ CashDelta(t) = 0
          /\ \E i \in 1..Len(t.lines) : Accounts[t.lines[i].account_id].code = C111001
          /\ \A i \in 1..Len(resp.body.sections["financing"].lines) :
                resp.body.sections["financing"].lines[i].transaction_id # t.id

\* ------------------------------------------------ debtor / creditor aging
MaxAge == 3

\* posting dates a month apart, as day numbers; the latest is the report date
AgingDates == {1 + 31 * k : k \in 0..MaxAge}
ReportDate == 1 + 31 * MaxAge

\* _aging_bucket
aging_bucket(days_old) ==
    IF days_old <= 30 THEN "current"
    ELSE IF days_old <= 60 THEN "days_31_60"
    ELSE IF days_old <= 90 THEN "days_61_90"
    ELSE "days_90_plus"

\* rows of Transaction JOIN TransactionLine JOIN TransactionEntity, as
\* <<transaction id, line index, link index>>, dated within [from_date, to_date]
LinkedLineRefs(txns, from_date, to_date) ==
    UNION {{<<t.id, i, k>> : i \in 1..Len(t.lines), k \in 1..Len(t.entity_links)} :
            t \in {u \in txns : u.date >= from_date /\ u.date <= to_date}}

\* ar_q: lines on account 1112 of transactions linked to a client,
\* grouped by (date, entity), delta = sum(debit) - sum(credit)
receivable_movements(txns, from_date, to_date) ==
    LET J == {j \in LinkedLineRefs(txns, from_date, to_date) :
                /\ TxnById(txns, j[1]).lines[j[2]].account_id = account_by_code(C1112)
                /\ TxnById(txns, j[1]).entity_links[j[3]].role \in {"client"}}
        key(j) == <<TxnById(txns, j[1]).date, TxnById(txns, j[1]).entity_links[j[3]].entity_id>>
    IN  {[date |-> g[1], role |-> "debtor", entity_id |-> g[2],
          delta |-> SumOver({j \in J : key(j) = g},
                            [j \in J |-> TxnById(txns, j[1]).lines[j[2]].debit
                                          - TxnById(txns, j[1]).lines[j[2]].credit])]
            : g \in {key(j) : j \in J}}

\* ap_q: lines on accounts 21% of transactions linked to a supplier or payee,
\* grouped by (date, entity), delta = sum(credit) - sum(debit)
payable_movements(txns, from_date, to_date) ==
    LET J == {j \in LinkedLineRefs(txns, from_date, to_date) :
                /\ StartsWith(Accounts[TxnById(txns, j[1]).lines[j[2]].account_id].code, <<2,1>>)
                /\ TxnById(txns, j[1]).entity_links[j[3]].role \in {"supplier", "payee"}}
        key(j) == <<TxnById(txns, j[1]).date, TxnById(txns, j[1]).entity_links[j[3]].entity_id>>
    IN  {[date |-> g[1], role |-> "creditor", entity_id |-> g[2],
          delta |-> SumOver({j \in J : key(j) = g},
                            [j \in J |-> TxnById(txns, j[1]).lines[j[2]].credit
                                          - TxnById(txns, j[1]).lines[j[2]].debit])]
            : g \in {key(j) : j \in J}}

debtor_creditor_movements(txns, from_date, to_date) ==
    receivable_movements(txns, from_date, to_date) \cup payable_movements(txns, from_date, to_date)

\* target[entity_id][bucket] += delta over the movement rows of one role
aging_cell(rows, today, role, entity_id, bucket) ==
    LET R == {r \in rows : /\ r.role = role
                           /\ r.entity_id = entity_id
                           /\ aging_bucket(Max(0, today - r.date)) = bucket}
    IN  SumOver(R, [r \in R |-> r.delta])

DebtorCreditorRow(rows, today, role, entity_id) ==
    LET b == [k \in {"current", "days_31_60", "days_61_90", "days_90_plus"} |->
                aging_cell(rows, today, role, entity_id, k)]
    IN  [entity_id |-> entity_id,
         current |-> b["current"], days_31_60 |-> b["days_31_60"],
         days_61_90 |-> b["days_61_90"], days_90_plus |-> b["days_90_plus"],
         total |-> b["current"] + b["days_31_60"] + b["days_61_90"] + b["days_90_plus"]]

\* the rows of one role with total > 0, sorted by total descending
\* (equal totals: by entity)
debtor_creditor_rows(rows, today, role) ==
    LET all == {DebtorCreditorRow(rows, today, role, e) :
                    e \in {r.entity_id : r \in {x \in rows : x.role = role}}}
        kept == {d \in all : d.total > 0}
    IN  OrderBy(kept, [d \in kept |-> <<0 - d.total, d.entity_id>>])

\* OperationsReportService.debtor_creditor
debtor_creditor(txns, from_date, to_date) ==
    LET period == default_period(from_date, to_date)
        rows == debtor_creditor_movements(txns, period.from_date, period.to_date)
        debtors == debtor_creditor_rows(rows, period.to_date, "debtor")
        creditors == debtor_creditor_rows(rows, period.to_date, "creditor")
    IN  [period |-> period, debtors |-> debtors, creditors |-> creditors,
         totals |-> [debtors |-> SumSeq([i \in 1..Len(debtors) |-> debtors[i].total]),
                     creditors |-> SumSeq([i \in 1..Len(creditors) |-> creditors[i].total])]]

DebtorCreditor(from_date, to_date) ==
    /\ resp' = [op |-> "debtor_creditor", status |-> 200,
                body |-> debtor_creditor(transactions, from_date, to_date)]
    /\ UNCHANGED <<transactions, invoices, pure>>
    /\ UNCHANGED feeVars

\* credit sales and receipts of client 1, bills and payments of supplier 2,
\* and one posting that names an entity that does not exist
AgingPayloads ==
    {[date |-> d, lines |-> LineSet(k[1], k[2]),
      entity_links |-> << [entity_id |-> k[3], role |-> k[4]] >>] :
        d \in AgingDates,
        k \in {<<"credit_sale", 5, 1, "client">>, <<"receipt", 2, 1, "client">>,
               <<"bill", 4, 2, "supplier">>, <<"repay", 1, 2, "payee">>}}
    \cup {[date |-> 1, lines |-> LineSet("credit_sale", 5),
           entity_links |-> << [entity_id |-> 3, role |-> "client"] >>]}

NextAging ==
    \/ Deliver
    \/ Ready /\ \E p \in AgingPayloads : CreateTransaction(p)
    \/ Ready /\ \E t \in AgingDates : DebtorCreditor(1, t)

SpecAging == Init /\ [][NextAging]_vars

\* ---------------------------------------------------------------------- C11
\* C11: no bucket (current, 31-60, 61-90, 90+) of any row the debtor /
\* creditor aging report returns is negative.
AgingRowNonNegative(row) ==
    /\ row.current >= 0
    /\ row.days_31_60 >= 0
    /\ row.days_61_90 >= 0
    /\ row.days_90_plus >= 0

C11_NoNegativeAgingBucket ==
    resp.op = "debtor_creditor" =>
        /\ \A i \in 1..Len(resp.body.debtors) : AgingRowNonNegative(resp.body.debtors[i])
        /\ \A i \in 1..Len(resp.body.creditors) : AgingRowNonNegative(resp.body.creditors[i])

\* ------------------------------------------------- owner dashboard aging
\* names under which a transaction without a client / vendor link is aged
UnassignedClient == 0
UnassignedVendor == 0 - 1
AgingNames == Entities \cup {UnassignedClient, UnassignedVendor}

\* _bucket_by_age
bucket_by_age(days_old) ==
    IF days_old <= 30 THEN "current"
    ELSE IF days_old <= 60 THEN "days_31_60"
    ELSE "days_60_plus"

\* defaultdict(lambda: {"current": 0, "days_31_60": 0, "days_60_plus": 0})
EmptyAging ==
    [n \in AgingNames |-> [k \in {"current", "days_31_60", "days_60_plus"} |-> 0]]

\* roles.get(role, []): the names of the entities linked in that role
RoleNames(t, role) ==
    LET links == SelectSeq(t.entity_links, LAMBDA l : l.role = role)
    IN  [i \in 1..Len(links) |-> links[i].entity_id]

\* receivable_delta: debit - credit over the lines on account 1112
receivable_delta(t) ==
    LET I == {i \in 1..Len(t.lines) : Accounts[t.lines[i].account_id].code = C1112}
    IN  SumOver(I, [i \in I |-> t.lines[i].debit - t.lines[i].credit])

\* payable_delta: credit - debit over the lines on accounts 21...
payable_delta(t) ==
    LET I == {i \in 1..Len(t.lines) : StartsWith(Accounts[t.lines[i].account_id].code, <<2,1>>)}
    IN  SumOver(I, [i \in I |-> t.lines[i].credit - t.lines[i].debit])

client_names(t) ==
    IF RoleNames(t, "client") # << >> THEN RoleNames(t, "client") ELSE << UnassignedClient >>

\* vendor_names or ["Unassigned vendor"]
vendor_names(t) ==
    LET names == RoleNames(t, "payee") \o RoleNames(t, "supplier")
    IN  IF names # << >> THEN names ELSE << UnassignedVendor >>

RECURSIVE age_for_names(_, _, _, _, _)
\* for c in names: buckets[c][bucket] += delta, or _apply_reduction(buckets[c], -delta)
age_for_names(buckets, names, i, bucket, delta) ==
    IF i > Len(names) \/ delta = 0 THEN buckets
    ELSE age_for_names(
            [buckets EXCEPT ![names[i]] =
                IF delta > 0 THEN [@ EXCEPT ![bucket] = @ + delta]
                ELSE apply_reduction(@, 0 - delta)],
            names, i + 1, bucket, delta)

RECURSIVE dashboard_aging_loop(_, _, _, _, _)
\* for t in txns: the receivable and payable part of the loop body, with the
\* transactions taken in the order the query returned them
dashboard_aging_loop(txns, order, i, today, acc) ==
    IF i > Len(order) THEN acc
    ELSE LET t == TxnById(txns, order[i])
             bucket == bucket_by_age(Max(0, today - t.date))
         IN  dashboard_aging_loop(txns, order, i + 1, today,
                [ar |-> age_for_names(acc.ar, client_names(t), 1, bucket, receivable_delta(t)),
                 ap |-> age_for_names(acc.ap, vendor_names(t), 1, bucket, payable_delta(t))])

\* AgingRow list: names with total > 0, sorted by total descending
\* (equal totals: by name)
aging_rows(buckets) ==
    LET row(n) == [name |-> n, current |-> buckets[n]["current"],
                   days_31_60 |-> buckets[n]["days_31_60"],
                   days_60_plus |-> buckets[n]["days_60_plus"],
                   total |-> buckets[n]["current"] + buckets[n]["days_31_60"]
                             + buckets[n]["days_60_plus"]]
        kept == {row(n) : n \in {x \in DOMAIN buckets : row(x).total > 0}}
    IN  OrderBy(kept, [r \in kept |-> <<0 - r.total, r.name>>])

\* get_owner_dashboard: the two aging tables of the response
owner_dashboard_aging(txns, order, today) ==
    LET acc == dashboard_aging_loop(txns, order, 1, today, [ar |-> EmptyAging, ap |-> EmptyAging])
    IN  [ar_aging |-> aging_rows(acc.ar), ap_aging |-> aging_rows(acc.ap)]

\* select(Transaction) without ORDER BY: the rows come in any order
QueryOrders(txns) ==
    {o \in [1..Cardinality(txns) -> TxnIds(txns)] : \A i, j \in DOMAIN o : o[i] = o[j] => i = j}

OwnerDashboard(today) ==
    /\ \E order \in QueryOrders(transactions) :
            resp' = [op |-> "owner_dashboard", status |-> 200,
                     body |-> owner_dashboard_aging(transactions, order, today)]
    /\ UNCHANGED <<transactions, invoices, pure>>
    /\ UNCHANGED feeVars

NextDashboard ==
    \/ Deliver
    \/ Ready /\ \E p \in AgingPayloads : CreateTransaction(p)
    \/ Ready /\ OwnerDashboard(ReportDate)

SpecDashboard == Init /\ [][NextDashboard]_vars

\* ---------------------------------------------------------------------- C12
\* the transactions by (date, created_at, id)
ChronologicalOrder(txns) ==
    LET ids == OrderBy(txns, [t \in txns |-> <<t.date, t.created_at, t.id>>])
    IN  [i \in 1..Len(ids) |-> ids[i].id]

\* C12: the owner dashboard's aging tables are those obtained by applying
\* the receivable and payable deltas in chronological order (date,
\* created_at, id): a settlement is never applied before an earlier-dated
\* charge, and every run over the same ledger returns the same buckets.
C12_ChronologicalAging ==
    resp.op = "owner_dashboard" =>
        resp.body = owner_dashboard_aging(transactions, ChronologicalOrder(transactions), ReportDate)

\* ------------------------------------------------- weighted-average inventory
MaxMoves == 3

\* quantities are floats; the model counts them in halves of a unit, which
\* floats represent exactly
QtyScale == 2

\* int(round(n / d)) for d > 0: Python rounds a half to the even neighbour
round_half_even(n, d) ==
    LET q == n \div d
        r == n % d
    IN  IF 2 * r < d THEN q
        ELSE IF 2 * r > d THEN q + 1
        ELSE IF q % 2 = 0 THEN q ELSE q + 1

\* ItemAccumulator()
ItemAccumulator == [qty_in |-> 0, qty_out |-> 0, on_hand |-> 0, inventory_value |-> 0, cogs |-> 0]

\* ItemAccumulator.avg_cost
avg_cost(acc) ==
    IF acc.on_hand <= 0 THEN 0
    ELSE round_half_even(acc.inventory_value * QtyScale, acc.on_hand)

\* int(round(qty * cost)) with qty counted in halves
movement_value(qty, cost) == round_half_even(qty * cost, QtyScale)

use_cost_given(acc, cost) == cost

\* use_cost = cost if cost > 0 else acc.avg_cost
use_cost(acc, cost) == IF cost > 0 THEN cost ELSE avg_cost(acc)

on_hand_after_out_unclamped(on_hand, qty) == on_hand - qty

\* acc.on_hand = max(0.0, acc.on_hand - qty)
on_hand_after_out(on_hand, qty) == Max(0, on_hand - qty)

apply_inventory_movement(acc, movement_type, qty, cost) ==
    IF qty <= 0 THEN acc
    ELSE IF movement_type = "IN"
    THEN [acc EXCEPT !.qty_in = @ + qty, !.on_hand = @ + qty,
                     !.inventory_value = @ + movement_value(qty, cost)]
    ELSE IF movement_type = "OUT"
    THEN LET cogs_value == movement_value(qty, use_cost(acc, cost))
         IN  [acc EXCEPT !.qty_out = @ + qty, !.cogs = @ + cogs_value,
                         !.on_hand = on_hand_after_out(@, qty),
                         !.inventory_value = Max(0, @ - cogs_value)]
    ELSE [acc EXCEPT !.qty_in = @ + qty, !.on_hand = @ + qty,
                     !.inventory_value = @ + movement_value(qty, cost)]

MovementTypes == {"IN", "OUT", "ADJUSTMENT"}
\* quantities in halves: 0.5, 4 and 10 units, and two that are not positive
Quantities == {0 - 2, 0, 1, 8, 20}
UnitCosts == {0, 5, 100, 200}

\* balance_report: the next movement of an item is folded into its
\* accumulator, which starts empty
CallApplyInventoryMovement(movement_type, qty, cost) ==
    /\ pure.fn \in {"none", "apply_inventory_movement"}
    /\ LET acc == IF pure.fn = "none" THEN ItemAccumulator ELSE pure.acc
           n == IF pure.fn = "none" THEN 0 ELSE pure.n
       IN  /\ n < MaxMoves
           /\ pure' = [fn |-> "apply_inventory_movement", before |-> acc,
                       movement_type |-> movement_type, quantity |-> qty, unit_cost |-> cost,
                       acc |-> apply_inventory_movement(acc, movement_type, qty, cost),
                       n |-> n + 1]
    /\ UNCHANGED <<transactions, invoices, resp>>
    /\ UNCHANGED feeVars

NextInventory ==
    \E ty \in MovementTypes, q \in Quantities, c \in UnitCosts : CallApplyInventoryMovement(ty, q, c)

SpecInventory == Init /\ [][NextInventory]_vars

\* ---------------------------------------------------------------------- C13
\* C13: one movement with quantity q > 0 is folded as: IN or ADJUSTMENT add q to
\* qty_in and on_hand and round(q * unit_cost) to inventory_value, leaving cogs
\* and qty_out; OUT adds q to qty_out, prices it at unit_cost when that is
\* positive and at the current average cost round(inventory_value / on_hand)
\* (0 without stock) otherwise, adds round(q * price) to cogs, and clamps
\* on_hand - q and inventory_value - round(q * price) at 0. IN 10 @100,
\* IN 10 @200 give average cost 150; OUT 4 @0 then gives on_hand 16, cogs 600.
ExpectedFold(b, ty, q, c) ==
    IF ty \in {"IN", "ADJUSTMENT"}
    THEN [qty_in |-> b.qty_in + q, qty_out |-> b.qty_out, on_hand |-> b.on_hand + q,
          inventory_value |-> b.inventory_value + round_half_even(q * c, QtyScale),
          cogs |-> b.cogs]
    ELSE LET price == IF c > 0 THEN c
                      ELSE IF b.on_hand = 0 THEN 0
                      ELSE round_half_even(b.inventory_value * QtyScale, b.on_hand)
             out_value == round_half_even(q * price, QtyScale)
         IN  [qty_in |-> b.qty_in, qty_out |-> b.qty_out + q,
              on_hand |-> IF b.on_hand - q > 0 THEN b.on_hand - q ELSE 0,
              inventory_value |-> IF b.inventory_value - out_value > 0
                                  THEN b.inventory_value - out_value ELSE 0,
              cogs |-> b.cogs + out_value]

InventoryExample ==
    (/\ pure.n = 3
     /\ pure.before = [qty_in |-> 40, qty_out |-> 0, on_hand |-> 40, inventory_value |-> 3000, cogs |-> 0]
     /\ pure.movement_type = "OUT" /\ pure.quantity = 8 /\ pure.unit_cost = 0)
        => /\ avg_cost(pure.before) = 150
           /\ pure.acc.on_hand = 32
           /\ pure.acc.cogs = 600

C13_InventoryFold ==
    pure.fn = "apply_inventory_movement" =>
        /\ pure.quantity > 0 =>
                pure.acc = ExpectedFold(pure.before, pure.movement_type, pure.quantity, pure.unit_cost)
        /\ InventoryExample

C13_Witness ==
    /\ pure.fn = "apply_inventory_movement"
    /\ pure.n = 3
    /\ pure.before = [qty_in |-> 40, qty_out |-> 0, on_hand |-> 40, inventory_value |-> 3000, cogs |-> 0]
    /\ pure.movement_type = "OUT" /\ pure.quantity = 8 /\ pure.unit_cost = 0
    /\ pure.acc.cogs = 600

\* ---------------------------------------------------------------------- C14
\* C14: folded from an empty accumulator, every accumulator has on_hand >= 0,
\* inventory_value >= 0 and avg_cost >= 0; no movement lowers qty_in, qty_out
\* or cogs; a movement with quantity <= 0 changes nothing (and none fails:
\* every fold yields an accumulator).
C14_InventoryNeverNegative ==
    pure.fn = "apply_inventory_movement" =>
        /\ pure.acc.on_hand >= 0
        /\ pure.acc.inventory_value >= 0
        /\ avg_cost(pure.acc) >= 0
        /\ pure.acc.qty_in >= pure.before.qty_in
        /\ pure.acc.qty_out >= pure.before.qty_out
        /\ pure.acc.cogs >= pure.before.cogs
        /\ pure.quantity <= 0 => pure.acc = pure.before
        /\ DOMAIN pure.acc = DOMAIN ItemAccumulator

\* an OUT larger than the stock has been folded
C14_Witness ==
    /\ pure.fn = "apply_inventory_movement"
    /\ pure.movement_type = "OUT"
    /\ pure.quantity > pure.before.on_hand
    /\ pure.before.on_hand > 0
    /\ pure.acc.on_hand = 0

\* ------------------------------------------------------ fee computation
MaxFeeAmount == 12

\* rule.max_fee is None
NoCap == 0 - 1

\* _effective_fee_values
effective_fee_values(rule) ==
    LET flat_fee == Max(0, rule.flat_fee)
        percent_bps == Max(0, rule.percent_bps)
    IN  IF rule.fee_type = "flat"
        THEN [flat_fee |-> IF flat_fee = 0 THEN Max(0, rule.fee_value) ELSE flat_fee, percent_bps |-> 0]
        ELSE IF rule.fee_type = "percent"
        THEN [flat_fee |-> 0, percent_bps |-> IF percent_bps = 0 THEN Max(0, rule.fee_value) ELSE percent_bps]
        ELSE IF rule.fee_type = "hybrid"
        THEN [flat_fee |-> IF flat_fee = 0 /\ percent_bps = 0 /\ rule.fee_value > 0
                           THEN Max(0, rule.fee_value) ELSE flat_fee,
              percent_bps |-> percent_bps]
        ELSE [flat_fee |-> 0, percent_bps |-> 0]

capped_fee_ignoring_cap(fee, rule) == [fee |-> Max(0, fee), cap_applied |-> FALSE]

\* if rule.max_fee is not None: ... ; return max(0, int(fee)), cap_applied
capped_fee(fee, rule) ==
    IF rule.max_fee # NoCap /\ fee > Max(0, rule.max_fee)
    THEN [fee |-> Max(0, Max(0, rule.max_fee)), cap_applied |-> TRUE]
    ELSE [fee |-> Max(0, fee), cap_applied |-> FALSE]

fee_amount_for_base(base_amount, rule) ==
    LET base == Max(0, base_amount)
        v == effective_fee_values(rule)
        percent_fee == round_half_even(base * v.percent_bps, 10000)
    IN  IF rule.fee_type = "free" THEN [fee |-> 0, cap_applied |-> FALSE]
        ELSE IF rule.fee_type = "flat" THEN capped_fee(v.flat_fee, rule)
        ELSE IF rule.fee_type = "percent" THEN capped_fee(percent_fee, rule)
        ELSE capped_fee(v.flat_fee + percent_fee, rule)

gross_for_base_without_fee(base, rule) == base

\* _gross_for_base
gross_for_base(base, rule) == base + fee_amount_for_base(base, rule).fee

Abs(x) == IF x < 0 THEN 0 - x ELSE x

RECURSIVE solve_search(_, _, _, _, _)
\* the while lo <= hi loop of _solve_base_from_gross
solve_search(gross, rule, lo, hi, best) ==
    IF lo > hi THEN [found |-> FALSE, base |-> best]
    ELSE LET mid == (lo + hi) \div 2
             total == gross_for_base(mid, rule)
         IN  IF total = gross THEN [found |-> TRUE, base |-> mid]
             ELSE IF total < gross THEN solve_search(gross, rule, mid + 1, hi, mid)
             ELSE solve_search(gross, rule, lo, mid - 1, best)

ScanRadius == 10000

RECURSIVE solve_scan(_, _, _, _, _, _)
\* the for base in range(start, end + 1) loop of _solve_base_from_gross
solve_scan(gross, rule, base, end, nearest, nearest_delta) ==
    IF base > end THEN nearest
    ELSE LET delta == Abs(gross_for_base(base, rule) - gross)
         IN  IF delta < nearest_delta
             THEN IF delta = 0 THEN base
                  ELSE solve_scan(gross, rule, base + 1, end, base, delta)
             ELSE solve_scan(gross, rule, base + 1, end, nearest, nearest_delta)

\* _solve_base_from_gross
solve_base_from_gross(gross_amount, rule) ==
    LET gross == Max(0, gross_amount) IN
    IF gross = 0 \/ rule.fee_type = "free" THEN gross
    ELSE LET s == solve_search(gross, rule, 0, gross, 0)
         IN  IF s.found THEN s.base
             ELSE solve_scan(gross, rule, Max(0, s.base - ScanRadius), Min(gross, s.base + ScanRadius),
                             s.base, Abs(gross_for_base(s.base, rule) - gross))

absorb_residual_skipped(fee, diff) == fee

\* fee = max(0, fee + diff)
absorb_residual(fee, diff) == Max(0, fee + diff)

\* calculate_total_with_fee; amount_mode other than "gross" counts as "net"
calculate_total_with_fee(amount, rule, amount_mode) ==
    LET input_amount == Max(0, amount) IN
    IF amount_mode = "gross"
    THEN LET base == solve_base_from_gross(input_amount, rule)
             f == fee_amount_for_base(base, rule)
             exact == base + f.fee
         IN  [amount_mode |-> "gross", input_amount |-> input_amount, base_amount |-> base,
              fee_amount |-> IF exact # input_amount THEN absorb_residual(f.fee, input_amount - exact)
                             ELSE f.fee,
              gross_amount |-> input_amount, net_amount |-> base, applied_cap |-> f.cap_applied]
    ELSE LET f == fee_amount_for_base(input_amount, rule)
         IN  [amount_mode |-> "net", input_amount |-> input_amount, base_amount |-> input_amount,
              fee_amount |-> f.fee, gross_amount |-> input_amount + f.fee,
              net_amount |-> input_amount, applied_cap |-> f.cap_applied]

\* rules of every type, with and without a cap; 2500 bps = 25 %, 10000 bps = 100 %
FeeRules ==
    [fee_type : {"flat", "percent", "hybrid", "free"}, fee_value : {0, 3}, flat_fee : {0, 2, 20},
     percent_bps : {0, 2500, 10000}, max_fee : {NoCap, 0, 1, 3}]

\* the Percent rule of 100 bps
ExampleRule == [fee_type |-> "percent", fee_value |-> 0, flat_fee |-> 0, percent_bps |-> 100, max_fee |-> NoCap]

FeeAmounts == (0 - 1)..MaxFeeAmount

FeeCalls ==
    (FeeRules \X FeeAmounts \X {"net", "gross"})
    \cup {<<ExampleRule, 1000000, "net">>, <<ExampleRule, 1010000, "gross">>}

CallCalculateTotalWithFee(rule, amount, amount_mode) ==
    /\ pure = NoCall
    /\ pure' = [fn |-> "calculate_total_with_fee", rule |-> rule, amount |-> amount,
                amount_mode |-> amount_mode, chained |-> FALSE,
                result |-> calculate_total_with_fee(amount, rule, amount_mode)]
    /\ UNCHANGED <<transactions, invoices, resp>>
    /\ UNCHANGED feeVars

\* the gross amount of a net computation is handed back in gross mode
CallGrossOfNet ==
    /\ pure.fn = "calculate_total_with_fee"
    /\ pure.amount_mode = "net"
    /\ pure' = [fn |-> "calculate_total_with_fee", rule |-> pure.rule,
                amount |-> pure.result.gross_amount, amount_mode |-> "gross", chained |-> TRUE,
                net_result |-> pure.result,
                result |-> calculate_total_with_fee(pure.result.gross_amount, pure.rule, "gross")]
    /\ UNCHANGED <<transactions, invoices, resp>>
    /\ UNCHANGED feeVars

ReturnFee ==
    /\ pure.fn = "calculate_total_with_fee"
    /\ pure' = NoCall
    /\ UNCHANGED <<transactions, invoices, resp>>
    /\ UNCHANGED feeVars

NextFees ==
    \/ \E c \in FeeCalls : CallCalculateTotalWithFee(c[1], c[2], c[3])
    \/ CallGrossOfNet
    \/ ReturnFee

SpecFees == Init /\ [][NextFees]_vars

\* ---------------------------------------------------------------------- C15
\* the fee before the cap: 0 (Free), flat (Flat), round(base * bps / 10000)
\* (Percent), flat + round(base * bps / 10000) (Hybrid)
UncappedFee(rule, base) ==
    LET v == effective_fee_values(rule)
        percent == round_half_even(base * v.percent_bps, 10000)
    IN  CASE rule.fee_type = "free" -> 0
          [] rule.fee_type = "flat" -> v.flat_fee
          [] rule.fee_type = "percent" -> percent
          [] rule.fee_type = "hybrid" -> v.flat_fee + percent

\* C15: in net mode base_amount = net_amount = amount, gross_amount = amount +
\* fee_amount, and fee_amount is the uncapped fee of the rule's type, replaced
\* by the cap, with applied_cap true, exactly when a cap is set and the
\* uncapped fee exceeds it. Percent 100 bps on 1,000,000: fee 10,000, gross
\* 1,010,000.
C15_NetModeFee ==
    (pure.fn = "calculate_total_with_fee" /\ pure.amount_mode = "net" /\ pure.amount >= 0) =>
        LET r == pure.result
            u == UncappedFee(pure.rule, pure.amount)
            over == pure.rule.fee_type # "free" /\ pure.rule.max_fee # NoCap /\ u > pure.rule.max_fee
        IN  /\ r.base_amount = pure.amount
            /\ r.net_amount = pure.amount
            /\ r.gross_amount = pure.amount + r.fee_amount
            /\ r.fee_amount = (IF over THEN pure.rule.max_fee ELSE u)
            /\ r.applied_cap = over
            /\ (pure.rule = ExampleRule /\ pure.amount = 1000000) =>
                    (r.fee_amount = 10000 /\ r.gross_amount = 1010000)

C15_Witness ==
    /\ pure.fn = "calculate_total_with_fee"
    /\ pure.amount_mode = "net"
    /\ pure.rule.fee_type = "hybrid"
    /\ pure.result.applied_cap
    /\ pure.result.fee_amount = 3
    /\ pure.result.gross_amount = pure.amount + 3

\* ---------------------------------------------------------------------- C16
\* C16: in gross mode, for every rule and amount >= 0, gross_amount is the
\* input amount, 0 <= base_amount <= gross_amount, fee_amount >= 0 and
\* base_amount + fee_amount = gross_amount.
C16_GrossModeReconciles ==
    (pure.fn = "calculate_total_with_fee" /\ pure.amount_mode = "gross" /\ pure.amount >= 0) =>
        LET r == pure.result
        IN  /\ r.gross_amount = pure.amount
            /\ r.input_amount = pure.amount
            /\ 0 <= r.base_amount
            /\ r.base_amount <= r.gross_amount
            /\ r.fee_amount >= 0
            /\ r.base_amount + r.fee_amount = r.gross_amount

\* a flat fee larger than the gross amount: the residual goes into the fee
C16_Witness ==
    /\ pure.fn = "calculate_total_with_fee"
    /\ pure.amount_mode = "gross"
    /\ pure.rule.fee_type = "flat"
    /\ pure.rule.flat_fee > pure.amount
    /\ pure.rule.max_fee = NoCap
    /\ pure.amount > 0
    /\ pure.result.base_amount = 0
    /\ pure.result.fee_amount = pure.amount

\* ---------------------------------------------------------------------- C17
\* C17: for an uncapped Flat, Percent or Hybrid rule and an amount a >= 0,
\* the gross amount of the net computation, computed back in gross mode,
\* gives base_amount = a and the fee_amount of the net computation.
C17_RoundTrip ==
    (/\ pure.fn = "calculate_total_with_fee"
     /\ pure.chained
     /\ pure.rule.fee_type \in {"flat", "percent", "hybrid"}
     /\ pure.rule.max_fee = NoCap
     /\ pure.net_result.input_amount >= 0) =>
        /\ pure.result.base_amount = pure.net_result.base_amount
        /\ pure.result.fee_amount = pure.net_result.fee_amount

C17_Witness ==
    /\ pure.fn = "calculate_total_with_fee"
    /\ pure.chained
    /\ pure.rule.fee_type = "hybrid"
    /\ pure.rule.max_fee = NoCap
    /\ pure.rule.flat_fee = 2 /\ pure.rule.percent_bps = 2500
    /\ pure.net_result.base_amount = 6
    /\ pure.net_result.fee_amount = 4
    /\ pure.result.base_amount = 6

\* ------------------------------------------------------------ fee rules
MaxRules == 3
MaxApps == 2

\* payment_methods rows (the seeded defaults) and entities of type bank; the
\* name stands for the id
PaymentMethods == {"paya", "satna"}
Banks == {11}

\* date.today() and today.replace(day=1): day 1 is the last day of the
\* previous month
Today == MaxDate
FirstOfMonth == 2

\* as_of / effective_from is None
NoDate == 0

RuleIds(rules) == {r.id : r \in rules}
RuleById(rules, id) == CHOOSE r \in rules : r.id = id
NewRuleId(rules) == CHOOSE i \in 1..(Cardinality(rules) + 1) : i \notin RuleIds(rules)

\* get_active_fee_rule returned None
NoRule == [id |-> 0]

fee_rule_candidates_including_later(rules, method_id, bank_id, target_date) ==
    {r \in rules : r.method_id = method_id /\ r.bank_id = bank_id /\ r.is_active}

\* the where clause of get_active_fee_rule
fee_rule_candidates(rules, method_id, bank_id, target_date) ==
    {r \in rules : /\ r.method_id = method_id
                   /\ r.bank_id = bank_id
                   /\ r.is_active
                   /\ r.effective_from <= target_date}

\* order by effective_from desc, created_at desc; first()
get_active_fee_rule(rules, method_id, bank_id, as_of) ==
    LET target_date == IF as_of = NoDate THEN Today ELSE as_of
        found == fee_rule_candidates(rules, method_id, bank_id, target_date)
    IN  IF found = {} THEN NoRule
        ELSE OrderBy(found, [r \in found |-> <<0 - r.effective_from, 0 - r.created_at>>])[1]

\* resolve_fee_rule: no payment method or no bank of that name gives no rule
resolve_fee_rule(rules, method_name, bank_name, as_of) ==
    IF method_name \notin PaymentMethods \/ bank_name \notin Banks THEN NoRule
    ELSE get_active_fee_rule(rules, method_name, bank_name, as_of)

calculate_total_with_fee_for_mapping(rules, amount, method_name, bank_name, amount_mode, as_of) ==
    CHOOSE out \in
        {IF rule.id = 0 THEN [raised |-> "ValueError", rule_id |-> 0]
         ELSE [raised |-> "none", rule_id |-> rule.id,
               calc |-> calculate_total_with_fee(amount, rule, amount_mode)] :
            rule \in {resolve_fee_rule(rules, method_name, bank_name, as_of)}} : TRUE

fee_rule_row_never_found(rules, method_id, bank_id, target_date) == {}

\* the select of upsert_fee_rule by (method_id, bank_id, effective_from)
fee_rule_row(rules, method_id, bank_id, target_date) ==
    {r \in rules : /\ r.method_id = method_id
                   /\ r.bank_id = bank_id
                   /\ r.effective_from = target_date}

\* upsert_fee_rule: the table after the flush and the row it returns
upsert_fee_rule(rules, method_id, bank_id, fee, effective_from) ==
    LET target_date == IF effective_from = NoDate THEN Today ELSE effective_from
        existing == fee_rule_row(rules, method_id, bank_id, target_date)
        row == IF existing # {} THEN CHOOSE r \in existing : TRUE
               ELSE [id |-> NewRuleId(rules), method_id |-> method_id, bank_id |-> bank_id,
                     effective_from |-> target_date, is_active |-> TRUE,
                     created_at |-> 1 + Cardinality({r.created_at : r \in rules}),
                     fee_type |-> "flat", fee_value |-> 0, flat_fee |-> 0, percent_bps |-> 0,
                     max_fee |-> NoCap]
        updated == [row EXCEPT !.fee_type = fee.fee_type,
                               !.fee_value = Max(0, fee.fee_value),
                               !.flat_fee = Max(0, fee.flat_fee),
                               !.percent_bps = Max(0, fee.percent_bps),
                               !.max_fee = IF fee.max_fee = NoCap THEN NoCap ELSE Max(0, fee.max_fee),
                               !.is_active = TRUE]
    IN  [rules |-> (rules \ existing) \cup {updated}, rule |-> updated]

\* ----------------------------------------------------- fee applications
AppIds(apps) == {a.id : a \in apps}
AppById(apps, id) == CHOOSE a \in apps : a.id = id
NewAppId(apps) == CHOOSE i \in 1..(Cardinality(apps) + 1) : i \notin AppIds(apps)

\* anchor_date = tx.date if tx is not None else app.created_at.date()
anchor_date(txns, app) ==
    IF app.transaction_id # 0 THEN TxnById(txns, app.transaction_id).date ELSE app.created_on

\* source_amount: gross_amount in gross mode, else net_amount or base_amount
\* or gross_amount (the first that is not 0)
source_amount(app) ==
    IF app.amount_mode = "gross" THEN app.gross_amount
    ELSE IF app.net_amount # 0 THEN app.net_amount
    ELSE IF app.base_amount # 0 THEN app.base_amount
    ELSE app.gross_amount

\* the loop body of recalculate_current_month_pending_entries
recalculated_entry(app, target_rule) ==
    CHOOSE out \in
        {[app EXCEPT !.fee_rule_id = target_rule.id,
                     !.base_amount = calc.base_amount, !.fee_amount = calc.fee_amount,
                     !.gross_amount = calc.gross_amount, !.net_amount = calc.net_amount] :
            calc \in {calculate_total_with_fee(source_amount(app), target_rule, app.amount_mode)}} : TRUE

recalculate_current_month_pending_entries(rules, apps, txns, method_id, bank_id, as_of) ==
    LET pending == {a \in apps : /\ a.method_id = method_id
                                 /\ a.bank_id = bank_id
                                 /\ a.status = "pending"}
        hit == {a \in pending : anchor_date(txns, a) >= FirstOfMonth /\ source_amount(a) # 0}
    IN  CHOOSE out \in
            {IF target_rule.id = 0 THEN [apps |-> apps, updated |-> 0]
             ELSE [apps |-> (apps \ hit) \cup {recalculated_entry(a, target_rule) : a \in hit},
                   updated |-> Cardinality(hit)] :
                target_rule \in {get_active_fee_rule(rules, method_id, bank_id, as_of)}} : TRUE

\* the fee fields upsert_transaction_fee passes on, by fee type
normalized_fee(payload) ==
    LET fee_value == Max(0, payload.fee_value)
        flat_fee == Max(0, payload.flat_fee)
        percent_bps == Max(0, payload.percent_bps)
        max_fee == IF payload.max_fee = NoCap THEN NoCap ELSE Max(0, payload.max_fee)
    IN  CASE payload.fee_type = "free" ->
                [fee_type |-> "free", fee_value |-> 0, flat_fee |-> 0, percent_bps |-> 0, max_fee |-> NoCap]
          [] payload.fee_type = "flat" ->
                [fee_type |-> "flat",
                 fee_value |-> IF flat_fee <= 0 THEN fee_value ELSE flat_fee,
                 flat_fee |-> IF flat_fee <= 0 THEN fee_value ELSE flat_fee,
                 percent_bps |-> 0, max_fee |-> max_fee]
          [] payload.fee_type = "percent" ->
                [fee_type |-> "percent",
                 fee_value |-> IF percent_bps <= 0 THEN fee_value ELSE percent_bps,
                 flat_fee |-> 0,
                 percent_bps |-> IF percent_bps <= 0 THEN fee_value ELSE percent_bps,
                 max_fee |-> max_fee]
          [] payload.fee_type = "hybrid" ->
                [fee_type |-> "hybrid", fee_value |-> 0, flat_fee |-> flat_fee,
                 percent_bps |-> percent_bps, max_fee |-> max_fee]

\* PUT /transactions/fees: upsert, optional recalculation, one commit
UpsertTransactionFee(payload) ==
    /\ IF payload.bank_id \notin Banks
       THEN /\ resp' = [op |-> "upsert_transaction_fee", status |-> 400]
            /\ UNCHANGED feeVars
       ELSE \E u \in {upsert_fee_rule(fee_rules, payload.method_name, payload.bank_id,
                                       normalized_fee(payload), payload.effective_from)} :
            \E r \in {IF payload.update_scope = "recalculate_current_month_pending"
                       THEN recalculate_current_month_pending_entries(
                              u.rules, fee_applications, transactions, u.rule.method_id, u.rule.bank_id,
                              IF payload.effective_from = NoDate THEN Today ELSE payload.effective_from)
                       ELSE [apps |-> fee_applications, updated |-> 0]} :
                /\ Cardinality(u.rules) <= MaxRules
                /\ fee_rules' = u.rules
                /\ fee_applications' = r.apps
                /\ resp' = [op |-> "upsert_transaction_fee", status |-> 200,
                            rule |-> u.rule, update_scope |-> payload.update_scope,
                            recalculated_pending_entries |-> r.updated]
    /\ UNCHANGED <<transactions, invoices, pure>>

\* POST /transactions/fees/calculate
CalculateTransactionFee(payload) ==
    /\ IF payload.method_name \notin PaymentMethods
       THEN /\ resp' = [op |-> "calculate_transaction_fee", status |-> 404]
            /\ UNCHANGED fee_applications
       ELSE IF payload.bank_id \notin Banks
       THEN /\ resp' = [op |-> "calculate_transaction_fee", status |-> 400]
            /\ UNCHANGED fee_applications
       ELSE \E rule \in {get_active_fee_rule(fee_rules, payload.method_name, payload.bank_id,
                                              payload.as_of_date)} :
                IF rule.id = 0
                THEN /\ resp' = [op |-> "calculate_transaction_fee", status |-> 404]
                     /\ UNCHANGED fee_applications
                ELSE IF payload.track_pending /\ payload.transaction_id # 0
                        /\ payload.transaction_id \notin TxnIds(transactions)
                THEN /\ resp' = [op |-> "calculate_transaction_fee", status |-> 404]
                     /\ UNCHANGED fee_applications
                ELSE \E calc \in {calculate_total_with_fee(payload.amount, rule, payload.amount_mode)},
                        existing \in {{a \in fee_applications :
                                        payload.transaction_id # 0
                                        /\ a.transaction_id = payload.transaction_id}} :
                     \E id \in {IF existing # {} THEN (CHOOSE a \in existing : TRUE).id
                                ELSE NewAppId(fee_applications)},
                        created_on \in {IF existing # {} THEN (CHOOSE a \in existing : TRUE).created_on
                                        ELSE Today} :
                     \E app_row \in {[id |-> id, transaction_id |-> payload.transaction_id,
                                       method_id |-> payload.method_name, bank_id |-> payload.bank_id,
                                       fee_rule_id |-> rule.id, status |-> "pending",
                                       amount_mode |-> payload.amount_mode,
                                       base_amount |-> calc.base_amount, fee_amount |-> calc.fee_amount,
                                       gross_amount |-> calc.gross_amount, net_amount |-> calc.net_amount,
                                       created_on |-> created_on]} :
                         /\ resp' = [op |-> "calculate_transaction_fee", status |-> 200,
                                     rule_id |-> rule.id, calc |-> calc]
                         /\ IF payload.track_pending
                            THEN /\ Cardinality((fee_applications \ existing) \cup {app_row}) <= MaxApps
                                 /\ fee_applications' = (fee_applications \ existing) \cup {app_row}
                            ELSE UNCHANGED fee_applications
    /\ UNCHANGED <<transactions, invoices, pure, fee_rules>>

\* calculate_total_with_fee_for_mapping as the chat flow calls it
CalculateForMapping(amount, method_name, bank_name, amount_mode, as_of) ==
    /\ resp' = [op |-> "calculate_total_with_fee_for_mapping", status |-> 0,
                method_name |-> method_name, bank_name |-> bank_name, as_of |-> as_of,
                out |-> calculate_total_with_fee_for_mapping(fee_rules, amount, method_name, bank_name,
                                                             amount_mode, as_of)]
    /\ UNCHANGED <<transactions, invoices, pure, fee_rules, fee_applications>>

\* No handler clears is_active or moves an application out of pending; rows
\* in those states are written directly to the tables.
DeactivateFeeRule(id) ==
    /\ id \in RuleIds(fee_rules)
    /\ RuleById(fee_rules, id).is_active
    /\ fee_rules' = (fee_rules \ {RuleById(fee_rules, id)})
                        \cup {[RuleById(fee_rules, id) EXCEPT !.is_active = FALSE]}
    /\ UNCHANGED <<transactions, invoices, resp, pure, fee_applications>>

SettleFeeApplication(id, status) ==
    /\ id \in AppIds(fee_applications)
    /\ AppById(fee_applications, id).status = "pending"
    /\ fee_applications' = (fee_applications \ {AppById(fee_applications, id)})
                        \cup {[AppById(fee_applications, id) EXCEPT !.status = status]}
    /\ UNCHANGED <<transactions, invoices, resp, pure, fee_rules>>

\* TransactionFeeUpsertRequest values
FreeFee == [fee_type |-> "free", fee_value |-> 0, flat_fee |-> 0, percent_bps |-> 0, max_fee |-> NoCap]
FlatFee == [fee_type |-> "flat", fee_value |-> 20, flat_fee |-> 0, percent_bps |-> 0, max_fee |-> NoCap]
PercentFee == [fee_type |-> "percent", fee_value |-> 0, flat_fee |-> 0, percent_bps |-> 2500, max_fee |-> 1]

UpsertPayload(method_name, bank_id, fee, effective_from, update_scope) ==
    [method_name |-> method_name, bank_id |-> bank_id, fee_type |-> fee.fee_type,
     fee_value |-> fee.fee_value, flat_fee |-> fee.flat_fee, percent_bps |-> fee.percent_bps,
     max_fee |-> fee.max_fee, effective_from |-> effective_from, update_scope |-> update_scope]

RuleUpserts ==
    {UpsertPayload(m, 11, f, d, "future_only") :
        m \in PaymentMethods, f \in {FlatFee, PercentFee}, d \in Dates \cup {NoDate}}
    \cup {UpsertPayload("paya", 12, FlatFee, 1, "future_only")}

NextFeeRules ==
    \/ Deliver
    \/ Ready /\ \E p \in RuleUpserts : UpsertTransactionFee(p)
    \/ Ready /\ \E id \in 1..MaxRules : DeactivateFeeRule(id)
    \/ Ready /\ \E m \in PaymentMethods \cup {"wire"}, b \in Banks \cup {12}, d \in Dates \cup {NoDate} :
                   CalculateForMapping(8, m, b, "net", d)

SpecFeeRules == Init /\ [][NextFeeRules]_vars

\* ---------------------------------------------------------------------- C18
\* the active rules of a method and bank in force on a date
RulesInForce(method_name, bank_name, as_of) ==
    {r \in fee_rules : /\ r.method_id = method_name
                       /\ r.bank_id = bank_name
                       /\ r.is_active
                       /\ r.effective_from <= (IF as_of = NoDate THEN Today ELSE as_of)}

\* C18: for a method, bank and as-of date the rule used is an active rule with
\* effective_from <= as-of and no other such rule has a later effective_from;
\* when there is none, calculate_total_with_fee_for_mapping raises the
\* no-fee-rule-mapped error and returns no computation.
C18_ActiveRuleAsOf ==
    resp.op = "calculate_total_with_fee_for_mapping" =>
        LET E == RulesInForce(resp.method_name, resp.bank_name, resp.as_of)
        IN  IF E = {}
            THEN resp.out.raised = "ValueError" /\ "calc" \notin DOMAIN resp.out
            ELSE /\ resp.out.raised = "none"
                 /\ \E r \in E : /\ r.id = resp.out.rule_id
                                  /\ \A e \in E : e.effective_from <= r.effective_from
                                  /\ resp.out.calc = calculate_total_with_fee(8, r, "net")

\* a later rule of the same method and bank is inactive: the older one is used
C18_Witness ==
    /\ resp.op = "calculate_total_with_fee_for_mapping"
    /\ resp.out.raised = "none"
    /\ \E r \in fee_rules, l \in fee_rules :
            /\ r.id = resp.out.rule_id
            /\ l.method_id = r.method_id /\ l.bank_id = r.bank_id
            /\ l.effective_from > r.effective_from
            /\ ~l.is_active
            /\ l.effective_from <= (IF resp.as_of = NoDate THEN Today ELSE resp.as_of)

\* ---------------------------------------------------------------------- C19
SameRuleKey(a, b) ==
    a.method_id = b.method_id /\ a.bank_id = b.bank_id /\ a.effective_from = b.effective_from

UniqueRuleKeys(rules) == \A a \in rules, b \in rules : SameRuleKey(a, b) => a = b

\* C19: there is at most one rule per (method, bank, effective_from); an
\* upsert of an existing key leaves the number of rows, keeps the row (id,
\* created_at) and returns it active; an upsert of a new key adds exactly that
\* one row; no other row changes.
C19_UpsertKeepsKeysUnique ==
    [][/\ UniqueRuleKeys(fee_rules')
       /\ (resp = NoResp /\ resp'.op = "upsert_transaction_fee" /\ resp'.status = 200) =>
            LET new == resp'.rule
                old == {r \in fee_rules : SameRuleKey(r, new)}
            IN  /\ new \in fee_rules'
                /\ new.is_active
                /\ fee_rules' \ {new} = fee_rules \ old
                /\ IF old # {}
                   THEN /\ Cardinality(fee_rules') = Cardinality(fee_rules)
                        /\ \A o \in old : o.id = new.id /\ o.created_at = new.created_at
                   ELSE /\ Cardinality(fee_rules') = Cardinality(fee_rules) + 1
                        /\ new.id \notin RuleIds(fee_rules)]_vars

\* the row returned by an upsert is older than another row: it was updated
C19_Witness ==
    /\ resp.op = "upsert_transaction_fee"
    /\ resp.status = 200
    /\ \E r \in fee_rules : r.created_at > resp.rule.created_at /\ ~r.is_active
    /\ resp.rule.fee_type = "percent"

\* ------------------------------------------------ recalculation of pending
\* a payment posted before the current month
FeeTxnPayloads == {[date |-> 1, lines |-> LineSet("expense", 8)]}

RecalcUpserts ==
    {UpsertPayload(m, 11, f, NoDate, sc) :
        m \in PaymentMethods, f \in {FreeFee, FlatFee},
        sc \in {"future_only", "recalculate_current_month_pending"}}
    \cup {UpsertPayload("paya", 12, FlatFee, NoDate, "recalculate_current_month_pending")}

\* TransactionFeeCalculateRequest values with track_pending set; the last
\* three name an unknown method, an unknown bank, and ask for no tracking
CalcPayload(method_name, amount, amount_mode, transaction_id) ==
    [method_name |-> method_name, bank_id |-> 11, amount |-> amount, amount_mode |-> amount_mode,
     as_of_date |-> NoDate, track_pending |-> TRUE, transaction_id |-> transaction_id]

CalcPayloads ==
    {CalcPayload("paya", 8, "net", 0), CalcPayload("paya", 0, "net", 0),
     CalcPayload("paya", 8, "gross", 1), CalcPayload("satna", 8, "net", 0),
     CalcPayload("wire", 8, "net", 0),
     [CalcPayload("paya", 8, "net", 0) EXCEPT !.bank_id = 12],
     [CalcPayload("paya", 8, "net", 0) EXCEPT !.track_pending = FALSE]}

NextFeeRecalc ==
    \/ Deliver
    \/ Ready /\ \E p \in FeeTxnPayloads : CreateTransaction(p)
    \/ Ready /\ \E p \in RecalcUpserts : UpsertTransactionFee(p)
    \/ Ready /\ \E p \in CalcPayloads : CalculateTransactionFee(p)
    \/ Ready /\ \E id \in 1..MaxApps, st \in {"applied", "skipped"} : SettleFeeApplication(id, st)

SpecFeeRecalc == Init /\ [][NextFeeRecalc]_vars

\* ---------------------------------------------------------------------- C20
\* the amount an application was computed from
AppliedAmount(app) == IF app.amount_mode = "gross" THEN app.gross_amount ELSE app.net_amount

Snapshot(app) ==
    [base_amount |-> app.base_amount, fee_amount |-> app.fee_amount,
     gross_amount |-> app.gross_amount, net_amount |-> app.net_amount]

SnapshotUnder(app, rule) ==
    Snapshot(calculate_total_with_fee(AppliedAmount(app), rule, app.amount_mode))

\* C20: an upsert with update_scope = recalculate_current_month_pending
\* rewrites, in the step that stores the rule, the snapshot of exactly the
\* applications that are pending, of the rule's method and bank, and anchored
\* (transaction date, else creation date) on or after the first day of the
\* current month; every other application is unchanged and no status changes.
C20_RecalculatesExactlyCurrentPending ==
    [][(/\ resp = NoResp
        /\ resp'.op = "upsert_transaction_fee"
        /\ resp'.status = 200
        /\ resp'.update_scope = "recalculate_current_month_pending") =>
            LET rule == resp'.rule
                Eligible == {a \in fee_applications :
                                /\ a.status = "pending"
                                /\ a.method_id = rule.method_id
                                /\ a.bank_id = rule.bank_id
                                /\ anchor_date(transactions, a) >= FirstOfMonth}
            IN  /\ rule \in fee_rules'
                /\ AppIds(fee_applications') = AppIds(fee_applications)
                /\ \A a \in fee_applications :
                        LET b == AppById(fee_applications', a.id)
                        IN  /\ b.status = a.status
                            /\ IF a \in Eligible
                               THEN Snapshot(b) = SnapshotUnder(a, rule)
                               ELSE b = a]_vars

\* ------------------------------------------------ person running balance
\* role_key = (role or "").strip().lower()
role_key(role) ==
    CASE role = "Client" -> "client"
      [] role = " supplier" -> "supplier"
      [] OTHER -> role

\* the anchor account of a role: 1112 for a client, 21% otherwise
person_account_matches(code, rk) ==
    IF rk = "client" THEN code = C1112 ELSE StartsWith(code, <<2,1>>)

\* the select of person_running_balance: Transaction joined with its
\* TransactionEntity rows of the entity and role and with its lines; one
\* result row per (line, matching link) pair
person_join(txns, entity_id, rk, period) ==
    {j \in LinkedLineRefs(txns, period.from_date, period.to_date) :
        /\ TxnById(txns, j[1]).entity_links[j[3]].entity_id = entity_id
        /\ TxnById(txns, j[1]).entity_links[j[3]].role = rk}

\* order_by(Transaction.date, Transaction.created_at, Transaction.id); the
\* rows of one transaction come in an order the query does not fix (tie)
person_query(txns, entity_id, rk, period, tie) ==
    LET J == person_join(txns, entity_id, rk, period)
    IN  OrderBy(J, [j \in J |-> <<TxnById(txns, j[1]).date, TxnById(txns, j[1]).created_at,
                                  j[1], tie * j[2], tie * j[3]>>])

person_delta(line, rk) ==
    IF rk = "client" THEN line.debit - line.credit ELSE line.credit - line.debit

PersonRunningBalanceRow(txn, rk, delta, running) ==
    [date |-> txn.date, transaction_id |-> txn.id,
     debit_effect |-> IF rk = "client" THEN Max(0, delta) ELSE Max(0, 0 - delta),
     credit_effect |-> IF rk = "client" THEN Max(0, 0 - delta) ELSE Max(0, delta),
     running_balance |-> running]

RECURSIVE person_walk(_, _, _, _, _)
\* for txn, line in rows: skip the lines off the anchor account, else
\* running += delta and append a row
person_walk(txns, rows, rk, i, running) ==
    IF i > Len(rows) THEN << >>
    ELSE IF ~person_account_matches(Accounts[TxnById(txns, rows[i][1]).lines[rows[i][2]].account_id].code, rk)
    THEN person_walk(txns, rows, rk, i + 1, running)
    ELSE <<PersonRunningBalanceRow(
                TxnById(txns, rows[i][1]), rk,
                person_delta(TxnById(txns, rows[i][1]).lines[rows[i][2]], rk),
                running + person_delta(TxnById(txns, rows[i][1]).lines[rows[i][2]], rk))>>
         \o person_walk(txns, rows, rk, i + 1,
                        running + person_delta(TxnById(txns, rows[i][1]).lines[rows[i][2]], rk))

\* OperationsReportService.person_running_balance: the HTTP error it raises
\* or the response it returns
person_running_balance(txns, entity_id, role, from_date, to_date, tie) ==
    IF entity_id \notin Entities THEN [status |-> 404]
    ELSE IF role_key(role) \notin {"client", "supplier", "payee"} THEN [status |-> 400]
    ELSE CHOOSE out \in
            {[status |-> 200, period |-> default_period(from_date, to_date),
              entity_id |-> entity_id, role |-> role_key(role), rows |-> rows,
              closing_balance |-> IF rows = << >> THEN 0 ELSE rows[Len(rows)].running_balance] :
                rows \in {person_walk(txns,
                                      person_query(txns, entity_id, role_key(role),
                                                   default_period(from_date, to_date), tie),
                                      role_key(role), 1, 0)}} : TRUE

\* person_running_balance as its callers invoke it: the route admits the roles
\* client, supplier and payee only, the chat report flow passes any role
PersonRunningBalance(entity_id, role, from_date, to_date) ==
    /\ \E tie \in {1, 0 - 1} :
            resp' = [op |-> "person_running_balance",
                     body |-> person_running_balance(transactions, entity_id, role,
                                                     from_date, to_date, tie)]
    /\ UNCHANGED <<transactions, invoices, pure>>
    /\ UNCHANGED feeVars

\* postings of client 1 and supplier / payee 2; one posting names client 1
\* twice in its entity_links, one names both parties
PersonLinks ==
    {<< [entity_id |-> 1, role |-> "client"] >>,
     << [entity_id |-> 2, role |-> "supplier"] >>,
     << [entity_id |-> 2, role |-> "payee"] >>,
     << [entity_id |-> 1, role |-> "client"], [entity_id |-> 1, role |-> "client"] >>,
     << [entity_id |-> 1, role |-> "client"], [entity_id |-> 2, role |-> "supplier"] >>}

PersonPayloads ==
    {[date |-> d, lines |-> LineSet(k[1], k[2]), entity_links |-> l] :
        d \in Dates, l \in PersonLinks,
        k \in {<<"credit_sale", 5>>, <<"receipt", 2>>, <<"bill", 4>>, <<"repay", 1>>}}

NextPerson ==
    \/ Deliver
    \/ Ready /\ \E p \in PersonPayloads : CreateTransaction(p)
    \/ Ready /\ \E e \in Entities \cup {3}, r \in {"Client", " supplier", "payee", "bank"},
                   f \in Dates, t \in Dates : PersonRunningBalance(e, r, f, t)

SpecPerson == Init /\ [][NextPerson]_vars

\* ---------------------------------------------------------------------- C21
\* the lines the report is about: lines on the role's anchor account of the
\* transactions linked to the entity with the role and dated in the period
PersonLines(txns, entity_id, rk, period) ==
    {r \in LineRefs(txns) :
        /\ RefTxn(txns, r).date >= period.from_date
        /\ RefTxn(txns, r).date <= period.to_date
        /\ \E k \in 1..Len(RefTxn(txns, r).entity_links) :
                /\ RefTxn(txns, r).entity_links[k].entity_id = entity_id
                /\ RefTxn(txns, r).entity_links[k].role = rk
        /\ person_account_matches(Accounts[RefLine(txns, r).account_id].code, rk)}

\* debit - credit for a client, credit - debit for a supplier or payee, read
\* from a row's two effects
RowDelta(row, rk) ==
    IF rk = "client" THEN row.debit_effect - row.credit_effect
    ELSE row.credit_effect - row.debit_effect

\* C21: the person running balance has one row per line on the role's anchor
\* account of the transactions linked to the entity with the role and dated
\* in the period, in chronological order; each row's running balance is the
\* previous one (0 at the start) plus the row's delta (debit - credit for a
\* client, credit - debit for a supplier or payee), one of the two effects
\* carries |delta| and the other is 0, and the closing balance is the sum of
\* the deltas of those lines.
C21_PersonRunningBalance ==
    (resp.op = "person_running_balance" /\ resp.body.status = 200) =>
        LET b == resp.body
            L == PersonLines(transactions, b.entity_id, b.role, b.period)
        IN  /\ Len(b.rows) = Cardinality(L)
            /\ \A t \in TxnIds(transactions) :
                    SumSeq([i \in 1..Len(b.rows) |->
                                IF b.rows[i].transaction_id = t THEN RowDelta(b.rows[i], b.role) ELSE 0])
                    = SumOver({r \in L : r[1] = t},
                              [r \in L |-> person_delta(RefLine(transactions, r), b.role)])
            /\ \A i \in 1..Len(b.rows) :
                    /\ b.rows[i].debit_effect >= 0 /\ b.rows[i].credit_effect >= 0
                    /\ b.rows[i].debit_effect = 0 \/ b.rows[i].credit_effect = 0
                    /\ b.rows[i].running_balance
                         = (IF i = 1 THEN 0 ELSE b.rows[i - 1].running_balance) + RowDelta(b.rows[i], b.role)
                    /\ i > 1 => LET p == TxnById(transactions, b.rows[i - 1].transaction_id)
                                    c == TxnById(transactions, b.rows[i].transaction_id)
                                IN  \/ p.date < c.date
                                    \/ p.date = c.date /\ p.created_at <= c.created_at
            /\ b.closing_balance
                 = SumOver(L, [r \in L |-> person_delta(RefLine(transactions, r), b.role)])

\* ---------------------------------------------------------------------- C22
\* a payload that carries a balanced line set on existing accounts
ReplacesLines(payload) ==
    payload.has_lines /\ BalanceCheck(payload.lines) /\ AllAccountsExist(payload.lines)

\* C22: an update of an existing transaction with a balanced line set,
\* through update_transaction or through edit_journal_entry, succeeds and
\* leaves the transaction with exactly the payload's lines.
C22_UpdateReplacesLines ==
    [][\A id \in TargetIds, p \in UpdatePayloads :
            (/\ resp = NoResp
             /\ id \in TxnIds(transactions)
             /\ ReplacesLines(p)
             /\ UpdateTransaction(id, p) \/ EditJournalEntry(id, p))
            => /\ resp'.status = 200
               /\ id \in TxnIds(transactions')
               /\ TxnById(transactions', id).lines = StoredLines(p.lines)]_vars

\* ------------------------------------------------- stored line amounts
\* TransactionCreate / TransactionUpdate lines (debit >= 0, credit >= 0 by the
\* schema)
LinePayloads == {[date |-> 1, lines |-> LineSet(k, 1)] : k \in {"sale", "wash"}}

\* ImportTransactionLine: debit: int = 0, credit: int = 0, any integer
SignedImportItems ==
    {[date |-> 1, lines |-> LineSet(k, 1)] : k \in {"sale", "negative", "unbalanced"}}

SignedImportBatches == UNION {[1..n -> SignedImportItems] : n \in 1..MaxTxns}

NextLines ==
    \/ Deliver
    \/ Ready /\ \E p \in LinePayloads : CreateTransaction(p)
    \/ Ready /\ \E id \in TargetIds, p \in UpdatePayloads : UpdateTransaction(id, p)
    \/ Ready /\ \E b \in SignedImportBatches : ImportTransactions(b)
    \/ Ready /\ \E id \in TargetIds : ReverseJournalEntry(id, MaxDate)

SpecLines == Init /\ [][NextLines]_vars

\* ---------------------------------------------------------------------- C23
\* C23: after any sequence of create, update, import and reverse operations
\* every stored transaction line has debit >= 0 and credit >= 0.
C23_StoredLinesNonNegative ==
    \A t \in transactions : \A i \in 1..Len(t.lines) :
        t.lines[i].debit >= 0 /\ t.lines[i].credit >= 0

\* ---------------------------------------------------------------------- C24
\* C24 as stated: for all turnovers d and c, every N in {ASSET, EXPENSE} and
\* every M in {LIABILITY, EQUITY, REVENUE},
\* balance_from_turnovers(N, d, c) = -balance_from_turnovers(M, c, d).
C24_SignSymmetricSwapped ==
    (pure.fn = "balance_from_turnovers" /\ pure.account_type \in {ASSET, EXPENSE}) =>
        \A M \in {LIABILITY, EQUITY, REVENUE} :
            pure.ret = 0 - balance_from_turnovers(M, pure.credit_turnover, pure.debit_turnover)

\* C24 amended: for all turnovers d and c, every N in {ASSET, EXPENSE} and
\* every M in {LIABILITY, EQUITY, REVENUE},
\* balance_from_turnovers(N, d, c) = -balance_from_turnovers(M, d, c), which
\* is balance_from_turnovers(M, c, d).
C24_SignSymmetric ==
    (pure.fn = "balance_from_turnovers" /\ pure.account_type \in {ASSET, EXPENSE}) =>
        \A M \in {LIABILITY, EQUITY, REVENUE} :
            /\ pure.ret = 0 - balance_from_turnovers(M, pure.debit_turnover, pure.credit_turnover)
            /\ pure.ret = balance_from_turnovers(M, pure.credit_turnover, pure.debit_turnover)

\* the call balance_from_turnovers(ASSET, 450, 100) returned 350
C24_Witness ==
    /\ pure.fn = "balance_from_turnovers"
    /\ pure.account_type = ASSET
    /\ pure.debit_turnover = 450 /\ pure.credit_turnover = 100
    /\ pure.ret = 350

\* -------------------------------------------------- classify_account_code
MaxCodeLen == 3

\* code strings of digits and spaces, the empty string included
CodeInputs == UNION {[1..n -> (0..9) \cup {Blank}] : n \in 0..MaxCodeLen}

\* classify_account_code(code); a missing code (None) is read as ""
CallClassifyAccountCode(given, code) ==
    /\ pure' = [fn |-> "classify_account_code", given |-> given, code |-> code,
                ret |-> classify_account_code(IF given THEN code ELSE << >>)]
    /\ UNCHANGED ledgerVars
    /\ UNCHANGED feeVars

NextClassify ==
    \/ Return
    \/ Idle /\ \E code \in CodeInputs : CallClassifyAccountCode(TRUE, code)
    \/ Idle /\ CallClassifyAccountCode(FALSE, << >>)

SpecClassify == Init /\ [][NextClassify]_vars

\* ---------------------------------------------------------------------- C25
\* the nature the claim's table gives for a 2-digit prefix read as a number
\* (0 when the string has no two leading digits)
NatureOfPrefix(p) ==
    IF p \in 11..15 THEN ASSET
    ELSE IF p \in 21..24 THEN LIABILITY
    ELSE IF p \in 31..33 THEN EQUITY
    ELSE IF p \in 41..43 THEN REVENUE
    ELSE IF p \in (51..53) \cup (61..62) THEN EXPENSE
    ELSE OTHER_

\* the first two characters of s after its first k, as a number
TwoDigitPrefix(s, k) ==
    IF Len(s) >= k + 2 /\ s[k + 1] \in 0..9 /\ s[k + 2] \in 0..9 THEN 10 * s[k + 1] + s[k + 2] ELSE 0

LeadingBlanks(s) ==
    CHOOSE k \in 0..Len(s) : /\ \A i \in 1..k : s[i] = Blank
                             /\ k < Len(s) => s[k + 1] # Blank

\* C25 as stated: for every code string, empty or missing included,
\* classify_account_code returns the nature of the string's 2-digit prefix
\* (ASSET 11-15, LIABILITY 21-24, EQUITY 31-33, REVENUE 41-43, EXPENSE 51-53
\* and 61-62) and OTHER for every other input.
C25_ClassifiesByPrefix ==
    pure.fn = "classify_account_code" =>
        pure.ret = NatureOfPrefix(TwoDigitPrefix(IF pure.given THEN pure.code ELSE << >>, 0))

\* C25 amended: classify_account_code is total; it returns the nature of the
\* 2-digit prefix of the code with its leading whitespace removed, and OTHER
\* for every other input, the empty, blank or missing code included.
C25_ClassifiesStrippedPrefix ==
    pure.fn = "classify_account_code" =>
        LET s == IF pure.given THEN pure.code ELSE << >>
        IN  pure.ret = NatureOfPrefix(TwoDigitPrefix(s, LeadingBlanks(s)))

\* the call classify_account_code(" 62") returned EXPENSE
C25_Witness ==
    /\ pure.fn = "classify_account_code"
    /\ pure.given
    /\ pure.code = <<Blank, 6, 2>>
    /\ pure.ret = EXPENSE

\* ------------------------------------------ apply_fee_to_transaction_lines
BANK_ACCOUNT_CODE == C1110
FEE_EXPENSE_ACCOUNT_CODE == C6210

\* a line of a draft transaction; fee_desc says whether its description
\* holds one of the fee keywords
DraftLine(account_code, debit, credit, fee_desc) ==
    [account_code |-> account_code, debit |-> debit, credit |-> credit, fee_desc |-> fee_desc]

RECURSIVE bank_scan(_, _, _, _)
\* the bank line with the largest credit (the first of them); index 0 is -1
bank_scan(lines, i, bank_idx, bank_credit) ==
    IF i > Len(lines) THEN [bank_idx |-> bank_idx, bank_credit |-> bank_credit]
    ELSE IF lines[i].account_code = BANK_ACCOUNT_CODE /\ lines[i].credit > bank_credit
    THEN bank_scan(lines, i + 1, i, lines[i].credit)
    ELSE bank_scan(lines, i + 1, bank_idx, bank_credit)

debit_candidate_indices(lines) ==
    {i \in 1..Len(lines) : lines[i].account_code # BANK_ACCOUNT_CODE /\ lines[i].debit > 0}

base_from_lines(lines, bank_credit) ==
    CHOOSE out \in
        {IF b <= 0 THEN bank_credit ELSE b :
            b \in {SumOver({i \in debit_candidate_indices(lines) :
                                lines[i].account_code # FEE_EXPENSE_ACCOUNT_CODE},
                           [i \in 1..Len(lines) |-> lines[i].debit])}} : TRUE

fee_candidate_indices(lines) ==
    {i \in 1..Len(lines) :
        /\ lines[i].account_code # BANK_ACCOUNT_CODE
        /\ lines[i].account_code = FEE_EXPENSE_ACCOUNT_CODE \/ lines[i].fee_desc}

\* the debit the primary fee line gets: its own plus fee - existing_fee_total
primary_fee_debit(lines, F, primary_idx, fee) ==
    Max(0, lines[primary_idx].debit) + (fee - SumOver(F, [i \in 1..Len(lines) |-> Max(0, lines[i].debit)]))

\* fee lines normalised to 6210 and merged into the first, or one appended
carry_fee(lines, F, fee) ==
    IF F = {}
    THEN Append(lines, DraftLine(FEE_EXPENSE_ACCOUNT_CODE, fee, 0, TRUE))
    ELSE [i \in 1..Len(lines) |->
            IF i \notin F THEN lines[i]
            ELSE DraftLine(FEE_EXPENSE_ACCOUNT_CODE,
                           IF \A j \in F : i <= j THEN primary_fee_debit(lines, F, i, fee) ELSE 0,
                           0, TRUE)]

\* gross mode: the largest non-fee debit line absorbs current_base - base_amount
settle_gross(lines, D, base_amount) ==
    LET N == {i \in D : lines[i].account_code # FEE_EXPENSE_ACCOUNT_CODE}
        delta == SumOver(N, [i \in 1..Len(lines) |-> lines[i].debit]) - base_amount
        target_idx == CHOOSE i \in N : \A j \in N : \/ lines[j].debit < lines[i].debit
                                                    \/ lines[j].debit = lines[i].debit /\ i <= j
    IN  IF N = {} \/ delta = 0 THEN lines
        ELSE [lines EXCEPT ![target_idx].debit = Max(0, lines[target_idx].debit - delta)]

\* net mode: the bank line is credited with the non-fee debits plus the fee
settle_net(lines, bank_idx, fee) ==
    [lines EXCEPT ![bank_idx].credit =
        SumOver({i \in 1..Len(lines) :
                    lines[i].account_code \notin {BANK_ACCOUNT_CODE, FEE_EXPENSE_ACCOUNT_CODE}},
                [i \in 1..Len(lines) |-> Max(0, lines[i].debit)]) + fee]

\* the bank line takes whatever difference is left between debits and credits
balance_on_bank(lines, bank_idx) ==
    CHOOSE out \in
        {IF diff > 0 THEN [lines EXCEPT ![bank_idx].credit = Max(0, lines[bank_idx].credit) + diff]
         ELSE IF diff < 0 THEN [lines EXCEPT ![bank_idx].debit = Max(0, lines[bank_idx].debit) + (0 - diff)]
         ELSE lines :
            diff \in {SumSeq([i \in 1..Len(lines) |-> Max(0, lines[i].debit)])
                      - SumSeq([i \in 1..Len(lines) |-> Max(0, lines[i].credit)])}} : TRUE

\* the part of apply_fee_to_transaction_lines after a fee > 0 was computed
lines_with_fee(lines, bank_idx, D, calc) ==
    CHOOSE out \in
        {balance_on_bank(IF calc.amount_mode = "gross"
                         THEN settle_gross(carried, D, calc.base_amount)
                         ELSE settle_net(carried, bank_idx, calc.fee_amount),
                         bank_idx) :
            carried \in {carry_fee(lines, fee_candidate_indices(lines), calc.fee_amount)}} : TRUE

NoCalc == [amount_mode |-> "none"]

\* apply_fee_to_transaction_lines: the lines it returns and the computation
\* (NoCalc for None)
apply_fee_to_transaction_lines(lines, rule, amount_mode) ==
    CHOOSE out \in
        {IF lines = << >> \/ bank.bank_idx = 0 \/ bank.bank_credit <= 0
            \/ debit_candidate_indices(lines) = {}
         THEN [lines |-> lines, calc |-> NoCalc]
         ELSE CHOOSE r \in
                {IF calc.fee_amount <= 0 THEN [lines |-> lines, calc |-> calc]
                 ELSE [lines |-> lines_with_fee(lines, bank.bank_idx, debit_candidate_indices(lines), calc),
                       calc |-> calc] :
                    calc \in {calculate_total_with_fee(
                                IF amount_mode = "gross" THEN bank.bank_credit
                                ELSE base_from_lines(lines, bank.bank_credit),
                                rule, IF amount_mode = "gross" THEN "gross" ELSE "net")}} : TRUE :
            bank \in {bank_scan(lines, 1, 0, 0)}} : TRUE

CallApplyFeeToTransactionLines(lines, rule, amount_mode) ==
    /\ pure' = [fn |-> "apply_fee_to_transaction_lines", lines |-> lines, rule |-> rule,
                amount_mode |-> amount_mode,
                out |-> apply_fee_to_transaction_lines(lines, rule, amount_mode)]
    /\ UNCHANGED ledgerVars
    /\ UNCHANGED feeVars

MaxFeeLines == 2

\* fee lines a draft may already hold: on 6210, or on 6112 with a fee
\* description
DraftFeeLines ==
    {DraftLine(k[1], f, 0, k[2]) : k \in {<<C6210, FALSE>>, <<C6112, TRUE>>}, f \in {0, 1, 5}}

\* a purchase of 8 paid from the bank with 0..MaxFeeLines fee lines, and the
\* drafts the function returns unchanged: no lines, no bank line, no debit
Drafts ==
    {<<DraftLine(C6112, 8, 0, FALSE)>> \o fees
        \o <<DraftLine(C1110, 0, 8 + SumSeq([i \in 1..Len(fees) |-> fees[i].debit]), FALSE)>> :
            fees \in UNION {[1..n -> DraftFeeLines] : n \in 0..MaxFeeLines}}
    \cup {<< >>,
          <<DraftLine(C6112, 8, 0, FALSE), DraftLine(C2110, 0, 8, FALSE)>>,
          <<DraftLine(C1110, 0, 8, FALSE), DraftLine(C4110, 0, 0, FALSE)>>}

DraftRules == {FreeFee, PercentFee, [FlatFee EXCEPT !.fee_value = 3]}

NextDraftFee ==
    \/ Return
    \/ Idle /\ \E lines \in Drafts, rule \in DraftRules, mode \in {"net", "gross"} :
                   CallApplyFeeToTransactionLines(lines, rule, mode)

SpecDraftFee == Init /\ [][NextDraftFee]_vars

\* ---------------------------------------------------------------------- C26
HasFeeLikeLine(lines) ==
    \E i \in 1..Len(lines) :
        /\ lines[i].account_code # C1110
        /\ lines[i].account_code = C6210 \/ lines[i].fee_desc

\* C26: when apply_fee_to_transaction_lines computes a fee > 0 for a draft
\* that already holds one or more fee-like lines, the debits of the 6210
\* lines of the result sum to the computed fee and no line of the result has
\* a negative debit or credit.
C26_FeeCarriedOnce ==
    (/\ pure.fn = "apply_fee_to_transaction_lines"
     /\ pure.out.calc # NoCalc
     /\ HasFeeLikeLine(pure.lines)) =>
        (pure.out.calc.fee_amount > 0 =>
            /\ SumSeq([i \in 1..Len(pure.out.lines) |->
                        IF pure.out.lines[i].account_code = C6210 THEN pure.out.lines[i].debit ELSE 0])
                 = pure.out.calc.fee_amount
            /\ \A i \in 1..Len(pure.out.lines) :
                    pure.out.lines[i].debit >= 0 /\ pure.out.lines[i].credit >= 0)


\* ------------------------------------------------- reversal of reversals
\* rows a run of creations and reversals may hold
MaxLedger == 4

LedgerIds == 1..MaxLedger

NextReverse ==
    \/ Deliver
    \/ Ready /\ \E p \in CreatePayloads : CreateTransaction(p)
    \/ Ready /\ \E b \in SignedImportBatches : ImportTransactions(b)
    \/ Ready /\ \E id \in LedgerIds : ReverseJournalEntryUpTo(MaxLedger, id, MaxDate)

SpecReverse == Init /\ [][NextReverse]_vars

\* ---------------------------------------------------------------------- C27
\* line by line: same account, debit and credit exchanged
SwappedLines(a, b) ==
    /\ Len(a) = Len(b)
    /\ \A i \in 1..Len(a) :
        /\ a[i].account_id = b[i].account_id
        /\ a[i].debit = b[i].credit
        /\ a[i].credit = b[i].debit

SameAmounts(a, b) ==
    /\ Len(a) = Len(b)
    /\ \A i \in 1..Len(a) : a[i].debit = b[i].debit /\ a[i].credit = b[i].credit

NetOn(lines, account_id) ==
    SumSeq([i \in 1..Len(lines) |->
        IF lines[i].account_id = account_id THEN lines[i].debit - lines[i].credit ELSE 0])

LineAccounts(lines) == {lines[i].account_id : i \in 1..Len(lines)}

\* C27: reverse_journal_entry of an existing transaction adds exactly one
\* transaction whose lines are the source's with debit and credit swapped
\* and changes no stored row; the reversal is balanced when the source is,
\* source plus reversal net to zero on every account, and the reversal of a
\* reversal carries the amounts of the transaction first reversed.
C27_ReversalSwapsLines ==
    [][\A id \in LedgerIds :
            (/\ resp = NoResp
             /\ id \in TxnIds(transactions)
             /\ ReverseJournalEntryUpTo(MaxLedger, id, MaxDate))
            => \E rev \in transactions' :
                 \E src \in {TxnById(transactions, id)} :
                    /\ rev.id \notin TxnIds(transactions)
                    /\ transactions' = transactions \cup {rev}
                    /\ src \in transactions'
                    /\ SwappedLines(rev.lines, src.lines)
                    /\ TxnBalanced(src) => TxnBalanced(rev)
                    /\ \A a \in LineAccounts(src.lines) :
                          NetOn(src.lines, a) + NetOn(rev.lines, a) = 0
                    /\ \A t \in transactions :
                          SwappedLines(src.lines, t.lines) => SameAmounts(rev.lines, t.lines)]_vars

\* a sale, its reversal and the reversal of the reversal are all stored
C27_Witness ==
    /\ resp = [op |-> "reverse_journal_entry", status |-> 200]
    /\ \E t1, t2, t3 \in transactions :
        /\ t1.created_at < t2.created_at /\ t2.created_at < t3.created_at
        /\ Len(t1.lines) = 2 /\ t1.lines[1].debit > 0 /\ t1.lines[1].credit = 0
        /\ SwappedLines(t2.lines, t1.lines)
        /\ SwappedLines(t3.lines, t2.lines)
        /\ t3.lines = t1.lines


\* ------------------------------------------------------ life of an invoice
\* only the invoice endpoints act, so every stored transaction was posted by
\* mark_invoice_paid
NextInvoice ==
    \/ Deliver
    \/ Ready /\ \E k \in {"sales", "purchase"}, st \in {"issued", "paid"} : CreateInvoice(k, 2, st)
    \/ Ready /\ \E id \in ModelInvoiceIds \cup {2}, st \in {"draft", "issued", "paid"} :
            UpdateInvoice(id, st)
    \/ Ready /\ \E id \in ModelInvoiceIds \cup {2}, d \in Dates, c \in {C1110, C111001, C9999} :
            MarkInvoicePaid(id, d, c)

SpecInvoice == Init /\ [][NextInvoice]_vars

\* ---------------------------------------------------------------------- C28
\* the transactions mark_invoice_paid has posted for the invoice
PaymentTransactions(inv) ==
    {t \in transactions :
        \E c \in {C1110, C111001} :
            t.lines = PaymentLines(inv, account_by_code(c),
                                   account_by_code(IF inv.kind = "sales" THEN C4110 ELSE C6112))}

\* C28: after any sequence of update_invoice and mark_invoice_paid calls on
\* an invoice, at most one payment transaction is in the ledger for it.
C28_PaidAtMostOnce ==
    \A inv \in invoices : Cardinality(PaymentTransactions(inv)) <= 1


\* ------------------------------------- movements that stay within the stock
\* quantities in halves: none, 1, 2 and 3 units
StockQuantities == {0, 2, 4, 6}
StockCosts == {0, 1, 2}

\* acc.on_hand before the next movement of the item
on_hand_now == IF pure.fn = "none" THEN 0 ELSE pure.acc.on_hand

\* balance_report over movements whose OUT rows carry unit_cost = 0 and a
\* quantity that the stock covers
NextStock ==
    \E ty \in MovementTypes, q \in StockQuantities, c \in StockCosts :
        /\ ty = "OUT" => (c = 0 /\ q <= on_hand_now)
        /\ CallApplyInventoryMovement(ty, q, c)

SpecStock == Init /\ [][NextStock]_vars

\* ---------------------------------------------------------------------- C29
\* C29: when every OUT is costed at the running average and never exceeds
\* the quantity on hand, an accumulator with on_hand = 0 has
\* inventory_value = 0.
C29_NoStockNoValue ==
    pure.fn = "apply_inventory_movement" =>
        (pure.acc.on_hand = 0 => pure.acc.inventory_value = 0)


\* ------------------------------------------- chat report: account_ledger
\* intent.bank_name / intent.account_code is None
NoText == ""
NoCode == << >>

\* the Entity rows of type bank: entity 2, named "mellat", code 111001
BankEntityByName == [mellat |-> 2]
BankEntityCode == C111001

\* _find_bank_entity_by_text: the bank entity the text names, or None (0)
find_bank_entity_by_text(text) ==
    IF text \in DOMAIN BankEntityByName THEN BankEntityByName[text] ELSE 0

\* _resolve_bank_account_code
resolve_bank_account_code(bank_name) ==
    IF bank_name = NoText THEN C1110
    ELSE IF find_bank_entity_by_text(bank_name) # 0 /\ account_by_code(BankEntityCode) # 0
    THEN BankEntityCode
    ELSE C1110

\* limit = max(1, min(200, int(intent.limit or 120)))
intent_limit(intent) == Max(1, Min(200, IF intent.limit = 0 THEN 120 ELSE intent.limit))

\* rep.rows[-limit:]
last_rows(rows, limit) == SubSeq(rows, Max(1, Len(rows) - limit + 1), Len(rows))

\* return message, rep.model_dump(); an HTTPException of the service leaves
\* the function
report_reply(message, rep) ==
    IF rep.status # 200 THEN [status |-> rep.status, message |-> "error"]
    ELSE [status |-> 200, message |-> message, report |-> rep]

\* the statements after rep = osvc.person_running_balance(...)
bank_statement_reply(txns, intent, rep) ==
    IF rep.status # 200 THEN [status |-> rep.status, message |-> "error"]
    ELSE IF rep.rows # << >>
    THEN [status |-> 200, message |-> "bank_statement",
          report |-> [rep EXCEPT !.rows = last_rows(@, intent_limit(intent))]]
    ELSE report_reply("no_entity_rows",
                      account_ledger(txns, resolve_bank_account_code(intent.bank_name),
                                     intent.from_date, intent.to_date, 1, intent_limit(intent)))

\* _build_report_from_intent, intent.key == "account_ledger"
build_report_from_intent(txns, intent, tie) ==
    IF intent.bank_name # NoText /\ find_bank_entity_by_text(intent.bank_name) # 0
    THEN CHOOSE out \in
            {bank_statement_reply(txns, intent, rep) :
                rep \in {person_running_balance(txns, find_bank_entity_by_text(intent.bank_name),
                                                "bank", intent.from_date, intent.to_date, tie)}} : TRUE
    ELSE report_reply("account_ledger",
                      account_ledger(txns,
                                     IF intent.account_code # NoCode THEN intent.account_code
                                     ELSE resolve_bank_account_code(intent.bank_name),
                                     intent.from_date, intent.to_date, 1, intent_limit(intent)))

BuildReportFromIntent(intent) ==
    /\ \E tie \in {1, 0 - 1} :
        \E out \in {build_report_from_intent(transactions, intent, tie)} :
            resp' = [op |-> "build_report_from_intent", status |-> out.status,
                     intent |-> intent, body |-> out]
    /\ UNCHANGED <<transactions, invoices, pure>>
    /\ UNCHANGED feeVars

\* ReportIntent(key="account_ledger", ...) with the period given
LedgerIntents ==
    {[key |-> "account_ledger", from_date |-> f, to_date |-> t, account_code |-> c,
      bank_name |-> b, limit |-> l] :
        f \in Dates, t \in Dates, c \in {NoCode, C1112, C9999},
        b \in {NoText, "mellat", "saman"}, l \in {0, 1}}

\* receipts and sales, some linked to the bank entity with role bank
IntentPayloads ==
    {[date |-> d, lines |-> LineSet(k, 1), entity_links |-> l] :
        d \in Dates, k \in {"receipt", "transfer"},
        l \in {<< [entity_id |-> 2, role |-> "bank"] >>, << [entity_id |-> 1, role |-> "client"] >>}}

NextIntent ==
    \/ Deliver
    \/ Ready /\ \E p \in IntentPayloads : CreateTransaction(p)
    \/ Ready /\ \E i \in LedgerIntents : BuildReportFromIntent(i)

SpecIntent == Init /\ [][NextIntent]_vars

\* ---------------------------------------------------------------------- C30
\* C30: for an account_ledger intent whose bank_name matches a bank entity,
\* _build_report_from_intent returns a report and no error: the bank's
\* entity-linked running balance when it has rows, else the account ledger
\* of the bank's account code.
C30_BankIntentReturnsReport ==
    (/\ resp.op = "build_report_from_intent"
     /\ find_bank_entity_by_text(resp.intent.bank_name) # 0)
        => /\ resp.status = 200
           /\ resp.body.message \in {"bank_statement", "no_entity_rows"}
           /\ resp.body.message = "no_entity_rows"
                => resp.body.report.account.account_code
                       = resolve_bank_account_code(resp.intent.bank_name)
====
